---- MODULE Spec2Model ----
(***************************************************************************)
(* ProtSLURM: the pose registry (Poses, src/protslurm/poses.py) and the    *)
(* reconciliation of runner output into it (RunnerOutput and Runner,       *)
(* src/protslurm/runners.py).                                              *)
(*                                                                         *)
(* Strings are sequences of lexemes.  The separator lexemes are "/", "."   *)
(* and "_"; every other lexeme is an atom that contains no separator, so   *)
(* the str.split / rsplit / join / os.path operations below act on these   *)
(* sequences exactly as Python acts on the characters.  A path such as     *)
(* d1/c.x.pdb is <<"d1","/","c",".","x",".","pdb">>, and a column name     *)
(* such as poses_description is <<"poses","_","description">>.             *)
(*                                                                         *)
(* A DataFrame is [cols |-> sequence of column names, rows |-> sequence of *)
(* rows], a row being a function from the column names to cell values      *)
(* (strings).  A failed operation is an exception in the code: the action  *)
(* records the exception class in last.err.                                *)
(*                                                                         *)
(* files and dirs are the paths that exist; contents gives the records of  *)
(* every fasta file, scorefiles the table in every persisted score file,   *)
(* default_jobstarter the attribute of that name of the Poses.             *)
(***************************************************************************)
EXTENDS Integers, Sequences, FiniteSets, TLC

VARIABLES df, files, dirs, last, pre, contents, scorefiles, default_jobstarter

vars == <<df, files, dirs, last, pre, contents, scorefiles, default_jobstarter>>

\* what only the runners and the fasta input touch: the records of the fasta
\* files, the persisted score files, and the default job backend of Poses
others == <<contents, scorefiles, default_jobstarter>>

---------------------------------------------------------------------------
(* Bounds of the model                                                     *)

\* longest list of input paths handed to Poses(poses=[...])
MaxPoses == 2
\* most outputs a runner writes per pose (and most copies duplicate_poses makes)
MaxFan == 2
\* most rows a raw result table has
MaxResults == 4
\* the most fragments in an option string
MaxFragments == 2
\* longest result description, in lexemes, of the join-key scenario
MaxKeyLen == 5
\* most index layers a runner declares
MaxLayers == 2

---------------------------------------------------------------------------
(* Python string operations on lexeme sequences                            *)

Range(s) == {s[i] : i \in DOMAIN s}

\* all but the last k elements of a list: lst[:-k] for k > 0
DropLast(lst, k) == IF k >= Len(lst) THEN <<>> ELSE SubSeq(lst, 1, Len(lst) - k)

\* positions of the lexeme sep in s
Positions(s, sep) == {i \in DOMAIN s : s[i] = sep}

Max(S) == CHOOSE x \in S : \A y \in S : y <= x
Min(S) == CHOOSE x \in S : \A y \in S : x <= y

\* str.split(sep): the list of the pieces between the occurrences of sep
RECURSIVE SplitFrom(_, _, _, _, _)
SplitFrom(s, sep, i, cur, acc) ==
    IF i > Len(s) THEN Append(acc, cur)
    ELSE IF s[i] = sep THEN SplitFrom(s, sep, i + 1, <<>>, Append(acc, cur))
    ELSE SplitFrom(s, sep, i + 1, Append(cur, s[i]), acc)

Split(s, sep) == SplitFrom(s, sep, 1, <<>>, <<>>)

\* sep.join(parts)
RECURSIVE Join(_, _)
Join(parts, sep) ==
    IF parts = <<>> THEN <<>>
    ELSE IF Len(parts) = 1 THEN parts[1]
    ELSE parts[1] \o <<sep>> \o Join(Tail(parts), sep)

\* s.rsplit(sep, maxsplit=1)[-1]: what follows the last sep (all of s if none)
RSplitLast(s, sep) ==
    IF Positions(s, sep) = {} THEN s
    ELSE SubSeq(s, Max(Positions(s, sep)) + 1, Len(s))

\* s.rsplit(sep, maxsplit=1)[0]: what precedes the last sep (all of s if none)
RSplitFirst(s, sep) ==
    IF Positions(s, sep) = {} THEN s
    ELSE SubSeq(s, 1, Max(Positions(s, sep)) - 1)

\* s.split(sep, maxsplit=1)[0]: what precedes the first sep (all of s if none)
SplitFirst(s, sep) ==
    IF Positions(s, sep) = {} THEN s
    ELSE SubSeq(s, 1, Min(Positions(s, sep)) - 1)

\* s.strip(ch): s without its leading and trailing occurrences of ch
Strip(s, ch) ==
    LET keep == {i \in DOMAIN s : s[i] # ch}
    IN  IF keep = {} THEN <<>> ELSE SubSeq(s, Min(keep), Max(keep))

\* s.endswith(t)
EndsWith(s, t) ==
    /\ Len(t) <= Len(s)
    /\ SubSeq(s, Len(s) - Len(t) + 1, Len(s)) = t

\* os.path.basename(path): what follows the last "/"
Basename(path) == RSplitLast(path, "/")

\* os.path.splitext(name)[0] for a name without "/": the name up to its last
\* ".", unless only dots precede that "." (a leading dot opens no extension)
SplitextRoot(name) ==
    LET dots == Positions(name, ".")
    IN  IF dots = {} THEN name
        ELSE LET d == Max(dots)
             IN  IF \E i \in 1..(d - 1) : name[i] # "."
                 THEN SubSeq(name, 1, d - 1)
                 ELSE name

\* os.path.join(a, b) for a relative b
PathJoin(a, b) ==
    IF a = <<>> THEN b
    ELSE IF a[Len(a)] = "/" THEN a \o b
    ELSE a \o <<"/">> \o b

---------------------------------------------------------------------------
(* Column names and cell values                                            *)

ColInputPoses == <<"input", "_", "poses">>
ColPoses == <<"poses">>
ColPosesDescription == <<"poses", "_", "description">>
ColDescription == <<"description">>
ColLocation == <<"location">>
ColSelectCol == <<"select", "_", "col">>

\* the cell pandas leaves where a frame has no value for a column
NaN == <<"NaN">>

\* the value of a score
Score == <<"1">>

\* pandas' default merge suffixes ("_x", "_y")
SuffixX(c) == c \o <<"_", "x">>
SuffixY(c) == c \o <<"_", "y">>

\* DataFrame.add_prefix(f"{prefix}_") on one column name
Prefixed(prefix, c) == prefix \o <<"_">> \o c

EmptyFrame(cols) == [cols |-> cols, rows |-> <<>>]

\* df[c].to_list()
Column(frame, c) == [i \in DOMAIN frame.rows |-> frame.rows[i][c]]

\* Poses.poses_list()
poses_list(frame) == Column(frame, ColPoses)

\* a dict is the list of its <<key, value>> items in insertion order
Keys(d) == {d[i][1] : i \in DOMAIN d}

\* d[k]
DictGet(d, k) == d[CHOOSE i \in DOMAIN d : d[i][1] = k][2]

\* d[k] = v: a key the dict has keeps its place
DictSet(d, k, v) ==
    IF k \in Keys(d)
    THEN [i \in DOMAIN d |-> IF d[i][1] = k THEN <<k, v>> ELSE d[i]]
    ELSE Append(d, <<k, v>>)

\* d.update(e)
RECURSIVE DictUpdate(_, _)
DictUpdate(d, e) ==
    IF e = <<>> THEN d
    ELSE DictUpdate(DictSet(d, e[1][1], e[1][2]), Tail(e))

---------------------------------------------------------------------------
(* Poses (src/protslurm/poses.py)                                          *)

MandatoryCols == <<ColInputPoses, ColPoses, ColPosesDescription>>

\* Poses.parse_descriptions on one path
parse_description(pose) == SplitFirst(RSplitLast(Strip(pose, "/"), "/"), ".")

\* Poses.parse_descriptions
parse_descriptions(poses) == [i \in DOMAIN poses |-> parse_description(poses[i])]

\* Poses.check_poses_df_integrity: the first mandatory column that is missing
check_poses_df_integrity(frame) ==
    IF \E i \in DOMAIN MandatoryCols : MandatoryCols[i] \notin Range(frame.cols)
    THEN "KeyError" ELSE "none"

\* glob(f"{poses}/{glob_suffix}") for a pattern "*<tail>": the files directly
\* in the directory whose name ends with the tail ("*" matches no leading ".")
GlobMatches(fs, dir, glob_suffix) ==
    {f \in fs :
        /\ Len(f) > Len(dir) + 1
        /\ SubSeq(f, 1, Len(dir) + 1) = dir \o <<"/">>
        /\ LET name == SubSeq(f, Len(dir) + 2, Len(f))
           IN  /\ "/" \notin Range(name)
               /\ name[1] # "."
               /\ glob_suffix[1] = "*"
               /\ EndsWith(name, Tail(glob_suffix))}

\* the lists glob() may return: the matches in any order
Listings(S) ==
    {l \in UNION {[1..n -> S] : n \in {Cardinality(S)}} : Range(l) = S}

\* parse_poses accepting a list as soon as one of its files exists
parse_poses_any_found(fs, inp, listing) ==
    IF inp.kind = "str" /\ inp.glob # <<>>
    THEN IF listing = <<>>
         THEN [err |-> "FileNotFoundError", poses |-> <<>>]
         ELSE [err |-> "none", poses |-> listing]
    ELSE IF inp.kind = "str"
    THEN IF inp.path \notin fs
         THEN [err |-> "FileNotFoundError", poses |-> <<>>]
         ELSE [err |-> "none", poses |-> <<inp.path>>]
    ELSE IF inp.kind = "list"
    THEN IF inp.list # <<>> /\ \A i \in DOMAIN inp.list : inp.list[i] \notin fs
         THEN [err |-> "FileNotFoundError", poses |-> <<>>]
         ELSE [err |-> "none", poses |-> inp.list]
    ELSE IF inp.kind = "none"
    THEN [err |-> "none", poses |-> <<>>]
    ELSE [err |-> "TypeError", poses |-> <<>>]

\* Poses.parse_poses.  inp is the pair of arguments: kind "str" (a path or a
\* directory, with glob the glob_suffix or <<>> for None), "list", "none";
\* listing is what glob() returned.
parse_poses(fs, inp, listing) ==
    IF inp.kind = "str" /\ inp.glob # <<>>
    THEN IF listing = <<>>
         THEN [err |-> "FileNotFoundError", poses |-> <<>>]
         ELSE [err |-> "none", poses |-> listing]
    ELSE IF inp.kind = "str"
    THEN IF inp.path \notin fs
         THEN [err |-> "FileNotFoundError", poses |-> <<>>]
         ELSE [err |-> "none", poses |-> <<inp.path>>]
    ELSE IF inp.kind = "list"
    THEN IF \E i \in DOMAIN inp.list : inp.list[i] \notin fs
         THEN [err |-> "FileNotFoundError", poses |-> <<>>]
         ELSE [err |-> "none", poses |-> inp.list]
    ELSE IF inp.kind = "none"
    THEN [err |-> "none", poses |-> <<>>]
    ELSE [err |-> "TypeError", poses |-> <<>>]

\* pd.DataFrame({"input_poses": poses, "poses": poses, "poses_description": ...})
NewPosesFrame(poses) ==
    LET descs == parse_descriptions(poses)
    IN  [cols |-> MandatoryCols,
         rows |-> [i \in DOMAIN poses |->
                      (ColInputPoses :> poses[i]) @@ (ColPoses :> poses[i])
                      @@ (ColPosesDescription :> descs[i])]]

\* the directory work_dir of the model's Poses: the default None, as it is
\* formatted into a path
WorkDir == <<"None">>

\* parse_fasta_to_dict of a file's records: the dict of name and sequence
parse_fasta_to_dict(records) == DictUpdate(<<>>, records)

\* output_dir = f"{self.work_dir}/input_fastas_split/" of split_multiline_fasta
SplitDir == WorkDir \o <<"/", "input_fastas_split", "/">>

\* fp = f"{output_dir}/{description}.fa"
SplitPath(description) == SplitDir \o <<"/">> \o description \o <<".", "fa">>

\* the loop of split_multiline_fasta over the items of fasta_dict from item
\* i on; d is the disk, [files, contents, dirs].  The try block parses path
\* again, not fp, so it never finds the file missing: it raises
\* FileNotFoundError itself, and the file is written, exactly when the item
\* is not the first item of path.
RECURSIVE SplitLoop(_, _, _)
SplitLoop(items, i, d) ==
    IF i > Len(items) THEN [d |-> d, out_poses |-> <<>>]
    ELSE LET fp == SplitPath(items[i][1])
             d2 == IF items[i] # items[1]
                   THEN [d EXCEPT !.files = @ \cup {fp},
                                  !.contents = (fp :> <<items[i]>>) @@ @]
                   ELSE d
             rest == SplitLoop(items, i + 1, d2)
         IN  [rest EXCEPT !.out_poses = <<fp>> \o @]

\* Poses.split_multiline_fasta: [err, d, out_poses]
split_multiline_fasta(path, d, has_work_dir) ==
    IF ~has_work_dir
    THEN [err |-> "AttributeError", d |-> d, out_poses |-> <<>>]
    ELSE LET r == SplitLoop(parse_fasta_to_dict(d.contents[path]), 1,
                            [d EXCEPT !.dirs = @ \cup {SplitDir}])
         IN  [err |-> "none", d |-> r.d, out_poses |-> r.out_poses]

\* list.remove(x): the list without its first x
ListRemove(lst, x) ==
    LET k == Min({i \in DOMAIN lst : lst[i] = x})
    IN  SubSeq(lst, 1, k - 1) \o SubSeq(lst, k + 1, Len(lst))

\* the loop of set_poses over the list poses, which it changes while it
\* iterates: the iterator is at index i, after a removal the element that
\* moved to index i is skipped, and the appended paths are visited too.
\* parse_fasta_to_dict opens the file, which must exist.
RECURSIVE FastaLoop(_, _, _, _)
FastaLoop(poses, i, d, has_work_dir) ==
    IF i > Len(poses) THEN [err |-> "none", poses |-> poses, d |-> d]
    ELSE IF ~EndsWith(poses[i], <<".", "fa">>)
    THEN FastaLoop(poses, i + 1, d, has_work_dir)
    ELSE IF poses[i] \notin d.files
    THEN [err |-> "FileNotFoundError", poses |-> poses, d |-> d]
    ELSE IF Len(parse_fasta_to_dict(d.contents[poses[i]])) > 1
    THEN LET sp == split_multiline_fasta(poses[i], d, has_work_dir)
         IN  IF sp.err # "none"
             THEN [err |-> sp.err, poses |-> poses, d |-> d]
             ELSE FastaLoop(ListRemove(poses, poses[i]) \o sp.out_poses, i + 1,
                            sp.d, has_work_dir)
    ELSE FastaLoop(poses, i + 1, d, has_work_dir)

\* Poses.set_poses: [err, df, d].  d is the disk, [files, contents, dirs];
\* has_work_dir tells whether the object has the attribute work_dir:
\* __init__ calls set_poses before set_work_dir.
set_poses(old, d, inp, listing, has_work_dir) ==
    IF inp.kind = "table"
    THEN IF check_poses_df_integrity(inp.table) # "none"
         THEN [err |-> check_poses_df_integrity(inp.table), df |-> old, d |-> d]
         ELSE [err |-> "none", df |-> inp.table, d |-> d]
    ELSE LET parsed == parse_poses(d.files, inp, listing)
         IN  IF parsed.err # "none" THEN [err |-> parsed.err, df |-> old, d |-> d]
             ELSE LET l == FastaLoop(parsed.poses, 1, d, has_work_dir)
                  IN  [err |-> l.err,
                       df |-> IF l.err = "none" THEN NewPosesFrame(l.poses) ELSE old,
                       d |-> l.d]

\* Poses.check_prefix and Runner.check_for_prefix (src/protslurm/runners.py):
\* the same test, on the column index
check_for_prefix(prefix, frame) ==
    IF prefix \in Range(frame.cols) THEN "KeyError" ELSE "none"

\* the assignment df[c] = values: an existing column keeps its place, a new
\* one is appended
SetColumn(frame, c, values) ==
    [cols |-> IF c \in Range(frame.cols) THEN frame.cols ELSE Append(frame.cols, c),
     rows |-> [i \in DOMAIN frame.rows |->
                  (c :> values[i]) @@ frame.rows[i]]]

\* DataFrame.drop(c, axis=1) of a column that exists
DropColumn(frame, c) ==
    LET keep == Range(frame.cols) \ {c}
    IN  [cols |-> SelectSeq(frame.cols, LAMBDA x : x # c),
         rows |-> [i \in DOMAIN frame.rows |->
                      [x \in keep |-> frame.rows[i][x]]]]

\* the shutil.copy loop of change_poses_dir over the pairs (old, new) from
\* position i on: a missing source raises FileNotFoundError, a copy of a file
\* onto itself raises SameFileError; the copies made before stay.
RECURSIVE CopyLoop(_, _, _, _, _)
CopyLoop(fs, olds, news, overwrite, i) ==
    IF i > Len(olds) THEN [err |-> "none", files |-> fs]
    ELSE IF ~overwrite /\ news[i] \in fs
    THEN CopyLoop(fs, olds, news, overwrite, i + 1)
    ELSE IF olds[i] \notin fs THEN [err |-> "FileNotFoundError", files |-> fs]
    ELSE IF olds[i] = news[i] THEN [err |-> "SameFileError", files |-> fs]
    ELSE CopyLoop(fs \cup {news[i]}, olds, news, overwrite, i + 1)

\* change_poses_dir without the test that the files are at the new place
change_poses_dir_unchecked(frame, fs, ds, poses_dir, copy, overwrite) ==
    LET olds == poses_list(frame)
        new_poses == [i \in DOMAIN olds |->
                         PathJoin(poses_dir, RSplitLast(olds[i], "/"))]
        done == [err |-> "none", df |-> SetColumn(frame, ColPoses, new_poses),
                 files |-> fs, dirs |-> ds]
    IN  IF ~copy
        THEN IF poses_dir \notin ds
             THEN [err |-> "ValueError", df |-> frame, files |-> fs, dirs |-> ds]
             ELSE done
        ELSE LET ds2 == ds \cup {poses_dir}
                 copied == CopyLoop(fs, olds, new_poses, overwrite, 1)
             IN  IF copied.err # "none"
                 THEN [err |-> copied.err, df |-> frame,
                       files |-> copied.files, dirs |-> ds2]
                 ELSE [done EXCEPT !.files = copied.files, !.dirs = ds2]

\* Poses.change_poses_dir: [err, df, files, dirs]
change_poses_dir(frame, fs, ds, poses_dir, copy, overwrite) ==
    LET olds == poses_list(frame)
        new_poses == [i \in DOMAIN olds |->
                         PathJoin(poses_dir, RSplitLast(olds[i], "/"))]
        done == [err |-> "none", df |-> SetColumn(frame, ColPoses, new_poses),
                 files |-> fs, dirs |-> ds]
    IN  IF ~copy
        THEN IF poses_dir \notin ds
             THEN [err |-> "ValueError", df |-> frame, files |-> fs, dirs |-> ds]
             ELSE IF \E i \in DOMAIN new_poses : new_poses[i] \notin fs
             THEN [err |-> "ValueError", df |-> frame, files |-> fs, dirs |-> ds]
             ELSE done
        ELSE LET ds2 == ds \cup {poses_dir}
                 copied == CopyLoop(fs, olds, new_poses, overwrite, 1)
             IN  IF copied.err # "none"
                 THEN [err |-> copied.err, df |-> frame,
                       files |-> copied.files, dirs |-> ds2]
                 ELSE [done EXCEPT !.files = copied.files, !.dirs = ds2]

---------------------------------------------------------------------------
(* pandas operations used by RunnerOutput                                  *)

\* DataFrame.merge(right, left_on=..., right_on=...), an inner join: a column
\* name held by both frames gets the suffix _x on the left and _y on the
\* right; the rows follow the left frame's order, and under each left row
\* the matching right rows in their order.
RECURSIVE JoinRows(_, _, _, _, _)
JoinRows(lrows, rrows, left_on, right_on, i) ==
    IF i > Len(lrows) THEN <<>>
    ELSE LET hits == SelectSeq([j \in DOMAIN rrows |-> j],
                               LAMBDA j : rrows[j][right_on] = lrows[i][left_on])
         IN  [h \in DOMAIN hits |-> <<i, hits[h]>>]
             \o JoinRows(lrows, rrows, left_on, right_on, i + 1)

\* a merge that renames nothing: a column held by both frames appears once,
\* with the right frame's cells
Merge_overwrite(left, right, left_on, right_on) ==
    LET pairs == JoinRows(left.rows, right.rows, left_on, right_on, 1)
    IN  [cols |-> left.cols
                  \o SelectSeq(right.cols, LAMBDA c : c \notin Range(left.cols)),
         rows |-> [p \in DOMAIN pairs |->
                      right.rows[pairs[p][2]] @@ left.rows[pairs[p][1]]]]

Merge(left, right, left_on, right_on) ==
    LET both == Range(left.cols) \cap Range(right.cols)
        lname(c) == IF c \in both THEN SuffixX(c) ELSE c
        rname(c) == IF c \in both THEN SuffixY(c) ELSE c
        pairs == JoinRows(left.rows, right.rows, left_on, right_on, 1)
        lcell(i) == [n \in {lname(c) : c \in Range(left.cols)} |->
                        left.rows[i][CHOOSE c \in Range(left.cols) : lname(c) = n]]
        rcell(j) == [n \in {rname(c) : c \in Range(right.cols)} |->
                        right.rows[j][CHOOSE c \in Range(right.cols) : rname(c) = n]]
    IN  [cols |-> [i \in DOMAIN left.cols |-> lname(left.cols[i])]
                  \o [i \in DOMAIN right.cols |-> rname(right.cols[i])],
         rows |-> [p \in DOMAIN pairs |-> lcell(pairs[p][1]) @@ rcell(pairs[p][2])]]

\* pd.concat([top, bottom]): the union of the columns, top's first; the rows
\* of both, NaN where a frame lacks the column
Concat(top, bottom) ==
    LET cols == top.cols \o SelectSeq(bottom.cols, LAMBDA c : c \notin Range(top.cols))
        widen(frame, i) == [c \in Range(cols) |->
                               IF c \in Range(frame.cols) THEN frame.rows[i][c] ELSE NaN]
    IN  [cols |-> cols,
         rows |-> [i \in DOMAIN top.rows |-> widen(top, i)]
                  \o [i \in DOMAIN bottom.rows |-> widen(bottom, i)]]

\* DataFrame.add_prefix(f"{prefix}_")
add_prefix(frame, prefix) ==
    [cols |-> [i \in DOMAIN frame.cols |-> Prefixed(prefix, frame.cols[i])],
     rows |-> [i \in DOMAIN frame.rows |->
                  [n \in {Prefixed(prefix, c) : c \in Range(frame.cols)} |->
                      frame.rows[i][CHOOSE c \in Range(frame.cols) : Prefixed(prefix, c) = n]]]]

---------------------------------------------------------------------------
(* RunnerOutput (src/protslurm/runners.py)                                 *)

\* check_data_formatting.extract_description
extract_description(path) == SplitextRoot(Basename(path))

\* a check of the mandatory columns only
check_data_formatting_columns_only(results) ==
    IF ColDescription \notin Range(results.cols) \/ ColLocation \notin Range(results.cols)
    THEN "ValueError: mandatory columns"
    ELSE "none"

\* RunnerOutput.check_data_formatting: the error it raises, or "none"
check_data_formatting(results) ==
    IF ColDescription \notin Range(results.cols) \/ ColLocation \notin Range(results.cols)
    THEN "ValueError: mandatory columns"
    ELSE IF \E i \in DOMAIN results.rows :
               results.rows[i][ColDescription]
                   # extract_description(results.rows[i][ColLocation])
    THEN "ValueError: description mismatch"
    ELSE "none"

\* a join key that keeps the index layers
select_col_keeps_index(description, index_layers, index_sep) == description

\* the join key of one description:
\* .str.split(index_sep).str[:-1*index_layers].str.join(index_sep)
select_col(description, index_layers, index_sep) ==
    IF index_layers # 0
    THEN Join(DropLast(Split(description, index_sep), index_layers), index_sep)
    ELSE description

\* RunnerOutput.__init__: [err, results], results being self.results
RunnerOutputInit(results, prefix, index_layers, index_sep) ==
    IF check_data_formatting(results) # "none"
    THEN [err |-> check_data_formatting(results), results |-> results]
    ELSE LET keys == [i \in DOMAIN results.rows |->
                         select_col(results.rows[i][ColDescription], index_layers, index_sep)]
         IN  [err |-> "none",
              results |-> add_prefix(SetColumn(results, ColSelectCol, keys), prefix)]

\* RunnerOutput.return_poses up to the statement that replaces poses.df:
\* [err, merged], merged being the local merged_df when the exception (if any)
\* is raised
MergeResults(poses_df, results, prefix) ==
    LET startlen == Len(results.rows)
        joined == IF Len(poses_list(poses_df)) = 0
                  THEN Concat(poses_df, results)
                  ELSE Merge(poses_df, results, ColPosesDescription,
                             Prefixed(prefix, ColSelectCol))
        sel == Prefixed(prefix, ColSelectCol)
        loc == Prefixed(prefix, ColLocation)
        desc == Prefixed(prefix, ColDescription)
    IN  IF sel \notin Range(joined.cols)
        THEN [err |-> "KeyError", merged |-> joined]
        ELSE LET merged == DropColumn(joined, sel)
             IN  IF Len(merged.rows) = 0
                 THEN [err |-> "ValueError: no overlap", merged |-> merged]
                 ELSE IF Len(merged.rows) < startlen
                 THEN [err |-> "ValueError: rows not found", merged |-> merged]
                 ELSE IF loc \notin Range(merged.cols)
                 THEN [err |-> "KeyError", merged |-> merged]
                 ELSE LET m1 == SetColumn(merged, ColPoses, Column(merged, loc))
                      IN  IF desc \notin Range(m1.cols)
                          THEN [err |-> "KeyError", merged |-> m1]
                          ELSE [err |-> "none",
                                merged |-> SetColumn(m1, ColPosesDescription,
                                                     Column(m1, desc))]

\* a return_poses that stores merged_df in poses.df before the checks
return_poses_store_first(poses_df, results, prefix) ==
    LET m == MergeResults(poses_df, results, prefix)
    IN  [err |-> m.err, df |-> m.merged]

\* RunnerOutput.return_poses: [err, df], df being poses.df afterwards.  The
\* assignment self.poses.df = merged_df is the last statement, reached only
\* when nothing was raised.
return_poses(poses_df, results, prefix) ==
    LET m == MergeResults(poses_df, results, prefix)
    IN  [err |-> m.err, df |-> IF m.err = "none" THEN m.merged ELSE poses_df]

\* RunnerOutput(poses, results, prefix, index_layers).return_poses()
Reconcile(poses_df, results, prefix, index_layers) ==
    LET out == RunnerOutputInit(results, prefix, index_layers, "_")
    IN  IF out.err # "none"
        THEN [err |-> out.err, df |-> poses_df]
        ELSE return_poses(poses_df, out.results, prefix)

---------------------------------------------------------------------------
(* Poses.duplicate_poses (src/protslurm/poses.py)                          *)

ColTempSelect == <<"temp", "_", "dp", "_", "select", "_", "col">>
ColTempDescription == <<"temp", "_", "dp", "_", "description">>
ColTempLocation == <<"temp", "_", "dp", "_", "location">>
ColPose == <<"pose">>

\* str(n).zfill(4) for the indices the model uses
Zfill4(n) == <<"0000", "0001", "0002", "0003", "0004", "0005">>[n + 1]

\* duplicate_poses.insert_index_layer
insert_index_layer(pose, n, sep) ==
    LET filepath == RSplitFirst(pose, "/")
        filename == RSplitLast(pose, "/")
    IN  filepath \o <<"/">> \o RSplitFirst(filename, ".") \o <<sep, Zfill4(n)>>
        \o <<".">> \o RSplitLast(filename, ".")

\* the list output_files of duplicate_poses
output_files(poses, output_dir, n_duplicates) ==
    [x \in 1..(Len(poses) * n_duplicates) |->
        output_dir \o <<"/">>
        \o insert_index_layer(poses[((x - 1) \div n_duplicates) + 1],
                              (x - 1) % n_duplicates, "_")]

\* Poses.duplicate_poses: [err, df, files].  The merged frame of line 308 is
\* never stored, so the statements after it act on the registry as it was.
duplicate_poses(frame, fs, output_dir, n_duplicates) ==
    LET poses == poses_list(frame)
        unsplittable(pose) == \/ "/" \notin Range(pose)
                              \/ "." \notin Range(RSplitLast(pose, "/"))
    IN  IF n_duplicates > 0 /\ \E i \in DOMAIN poses : unsplittable(poses[i])
        THEN [err |-> "ValueError", df |-> frame, files |-> fs]
        ELSE IF ColTempSelect \notin Range(frame.cols)
        THEN [err |-> "KeyError", df |-> frame, files |-> fs]
        ELSE LET d1 == DropColumn(frame, ColTempSelect)
                 has(c) == c \in Range(d1.cols)
             IN  IF d1.rows # <<>> /\ ~has(ColTempLocation)
                 THEN [err |-> "KeyError", df |-> d1, files |-> fs]
                 ELSE LET copied ==
                              IF d1.rows = <<>> \/ ~has(ColPose)
                              THEN [err |-> IF \E i \in DOMAIN d1.rows :
                                                  d1.rows[i][ColTempLocation] \notin fs
                                            THEN "KeyError" ELSE "none",
                                    files |-> fs]
                              ELSE CopyLoop(fs, Column(d1, ColPose),
                                            Column(d1, ColTempLocation), FALSE, 1)
                      IN  IF copied.err # "none"
                          THEN [err |-> copied.err, df |-> d1, files |-> copied.files]
                          ELSE IF ~has(ColTempLocation)
                          THEN [err |-> "KeyError", df |-> d1, files |-> copied.files]
                          ELSE LET d2 == SetColumn(d1, ColPoses, Column(d1, ColTempLocation))
                               IN  IF ~has(ColDescription)
                                   THEN [err |-> "KeyError", df |-> d2,
                                         files |-> copied.files]
                                   ELSE [err |-> "none",
                                         df |-> SetColumn(d2, ColPosesDescription,
                                                          Column(d2, ColDescription)),
                                         files |-> copied.files]

---------------------------------------------------------------------------
(* Runner.prep_pose_options (src/protslurm/runners.py)                     *)

\* Python's None where a string is expected
None == <<"None">>

\* col_in_df
col_in_df(frame, column) ==
    IF column \notin Range(frame.cols) THEN "KeyError" ELSE "none"

\* prep_pose_options that returns the list whatever its length
prep_pose_options_unchecked(frame, pose_options) ==
    IF pose_options.kind = "column"
    THEN IF col_in_df(frame, pose_options.name) # "none"
         THEN [err |-> "KeyError", value |-> <<>>]
         ELSE [err |-> "AttributeError", value |-> <<>>]
    ELSE [err |-> "none",
          value |-> IF pose_options.kind = "none"
                    THEN [i \in DOMAIN frame.rows |-> None]
                    ELSE pose_options.list]

\* Runner.prep_pose_options: [err, value].  pose_options is a column name
\* (kind "column"), a list (kind "list") or None (kind "none").  For a column
\* name, poses.df[pose_options] is a pandas Series, which has no attribute
\* poses_list.
prep_pose_options(frame, pose_options) ==
    IF pose_options.kind = "column"
    THEN IF col_in_df(frame, pose_options.name) # "none"
         THEN [err |-> "KeyError", value |-> <<>>]
         ELSE [err |-> "AttributeError", value |-> <<>>]
    ELSE LET opts == IF pose_options.kind = "none"
                     THEN [i \in DOMAIN frame.rows |-> None]
                     ELSE pose_options.list
         IN  IF Len(frame.rows) # Len(opts) /\ Len(frame.rows) # 0
             THEN [err |-> "ValueError", value |-> <<>>]
             ELSE [err |-> "none", value |-> opts]

---------------------------------------------------------------------------
(* Option strings (src/protslurm/runners.py).  An option string is the     *)
(* sequence of its characters.                                             *)

\* the default separator "--"
Sep == <<"-", "-">>

\* str.split(sep) for a separator of several characters: the pieces between
\* the occurrences of sep, found from the left
RECURSIVE SplitOnFrom(_, _, _, _, _)
SplitOnFrom(s, sep, i, cur, acc) ==
    IF i > Len(s) THEN Append(acc, cur)
    ELSE IF i + Len(sep) - 1 <= Len(s) /\ SubSeq(s, i, i + Len(sep) - 1) = sep
    THEN SplitOnFrom(s, sep, i + Len(sep), <<>>, Append(acc, cur))
    ELSE SplitOnFrom(s, sep, i + 1, Append(cur, s[i]), acc)

SplitOn(s, sep) == SplitOnFrom(s, sep, 1, <<>>, <<>>)

\* str.split(): the words between runs of whitespace
Words(s) == SelectSeq(Split(s, " "), LAMBDA w : w # <<>>)

\* the loop of expand_options_flags with the two tests in the other order
RECURSIVE ExpandLoop_equals_first(_, _, _, _)
ExpandLoop_equals_first(items, i, opts, flags) ==
    IF i > Len(items) THEN [opts |-> opts, flags |-> flags]
    ELSE LET w == Words(items[i])
             e == Split(items[i], "=")
         IN  IF Len(e) > 1
             THEN ExpandLoop_equals_first(items, i + 1,
                             DictSet(opts, e[1], Join(Tail(e), "=")), flags)
             ELSE IF Len(w) > 1
             THEN ExpandLoop_equals_first(items, i + 1,
                             DictSet(opts, w[1], Join(Tail(w), " ")), flags)
             ELSE ExpandLoop_equals_first(items, i + 1, opts, flags \cup {e[1]})

\* the loop of expand_options_flags over firstsplit from item i on
RECURSIVE ExpandLoop(_, _, _, _)
ExpandLoop(items, i, opts, flags) ==
    IF i > Len(items) THEN [opts |-> opts, flags |-> flags]
    ELSE LET w == Words(items[i])
             e == Split(items[i], "=")
         IN  IF Len(w) > 1
             THEN ExpandLoop(items, i + 1,
                             DictSet(opts, w[1], Join(Tail(w), " ")), flags)
             ELSE IF Len(e) > 1
             THEN ExpandLoop(items, i + 1,
                             DictSet(opts, e[1], Join(Tail(e), "=")), flags)
             ELSE ExpandLoop(items, i + 1, opts, flags \cup {e[1]})

\* expand_options_flags: [opts, flags].  The pieces are tested for emptiness
\* before they are stripped.
expand_options_flags(options_str, sep) ==
    IF options_str = None \/ options_str = <<>>
    THEN [opts |-> <<>>, flags |-> {}]
    ELSE LET pieces == SelectSeq(SplitOn(options_str, sep), LAMBDA x : x # <<>>)
             firstsplit == [i \in DOMAIN pieces |-> Strip(pieces[i], " ")]
         IN  ExpandLoop(firstsplit, 1, <<>>, {})

\* parse_generic_options with the update the other way round
parse_generic_options_generic_wins(options, pose_options, sep) ==
    LET g == expand_options_flags(options, sep)
        p == expand_options_flags(pose_options, sep)
    IN  [opts |-> DictUpdate(p.opts, g.opts), flags |-> g.flags \cup p.flags]

\* parse_generic_options: [opts, flags]
parse_generic_options(options, pose_options, sep) ==
    LET g == expand_options_flags(options, sep)
        p == expand_options_flags(pose_options, sep)
    IN  [opts |-> DictUpdate(g.opts, p.opts), flags |-> g.flags \cup p.flags]

---------------------------------------------------------------------------
(* The runners: Runner.generic_run_setup (src/protslurm/runners.py),       *)
(* RosettaScripts (src/protslurm/tools/rosettascripts.py) and RFdiffusion  *)
(* (src/protslurm/runners/rfdiffusion.py, on the RunnerOutput of           *)
(* src/protslurm/runners/runners.py).  A run returns the record            *)
(* [err, df, files, dirs, scorefiles, steps, backend, cmds]: steps lists   *)
(* what the run did in order, backend is the job backend it chose, cmds    *)
(* the commands it handed to the backend's start.                          *)

\* jobstarter=None
NoJobstarter == "None"

\* one cell as DataFrame.to_json writes it: None and NaN both become null
JsonCell(v) == IF v \in {None, NaN} THEN <<"null">> ELSE v

\* one cell as pd.read_json reads it: null becomes NaN
FrameCell(v) == IF v = <<"null">> THEN NaN ELSE v

\* DataFrame.to_json(path) of a frame whose index is the list index: the
\* default orient "columns" needs a unique index.  [err, doc]
to_json(frame, index) ==
    IF \E i \in DOMAIN index : \E j \in DOMAIN index : i # j /\ index[i] = index[j]
    THEN [err |-> "ValueError", doc |-> <<>>]
    ELSE [err |-> "none",
          doc |-> [columns |-> frame.cols, index |-> index,
                   cells |-> [i \in DOMAIN frame.rows |->
                                 [c \in Range(frame.cols) |-> JsonCell(frame.rows[i][c])]]]]

\* pd.read_json(path)
read_json(doc) ==
    [cols |-> doc.columns,
     rows |-> [i \in DOMAIN doc.cells |->
                  [c \in Range(doc.columns) |-> FrameCell(doc.cells[i][c])]]]

\* the index after reset_index(drop=True)
RangeIndex(n) == [i \in 1..n |-> i - 1]

ColIndex == <<"index">>

\* RunnerOutput.return_poses of src/protslurm/runners/runners.py: [err, df].
\* It always merges, and reset_index(inplace=True) inserts the old index as
\* the first column, named index.
return_poses_legacy(poses_df, results, prefix) ==
    LET startlen == Len(results.rows)
        sel == Prefixed(prefix, ColSelectCol)
        loc == Prefixed(prefix, ColLocation)
        desc == Prefixed(prefix, ColDescription)
        joined == Merge(poses_df, results, ColPosesDescription, sel)
        failed(e) == [err |-> e, df |-> poses_df]
    IN  IF sel \notin Range(joined.cols) THEN failed("KeyError")
        ELSE LET dropped == DropColumn(joined, sel)
             IN  IF ColIndex \in Range(dropped.cols)
                 THEN failed("ValueError: cannot insert index")
                 ELSE LET merged ==
                              [cols |-> <<ColIndex>> \o dropped.cols,
                               rows |-> [i \in DOMAIN dropped.rows |->
                                            (ColIndex :> <<ToString(i - 1)>>)
                                            @@ dropped.rows[i]]]
                      IN  IF Len(merged.rows) = 0 THEN failed("ValueError: no overlap")
                          ELSE IF Len(merged.rows) < startlen
                          THEN failed("ValueError: rows not found")
                          ELSE IF loc \notin Range(merged.cols) \/ desc \notin Range(merged.cols)
                          THEN failed("KeyError")
                          ELSE [err |-> "none",
                                df |-> SetColumn(SetColumn(merged, ColPoses,
                                                           Column(merged, loc)),
                                                 ColPosesDescription, Column(merged, desc))]

\* RunnerOutput(poses, results, prefix, index_layers).return_poses() of
\* src/protslurm/runners/runners.py
ReconcileLegacy(poses_df, results, prefix, index_layers) ==
    LET out == RunnerOutputInit(results, prefix, index_layers, "_")
    IN  IF out.err # "none"
        THEN [err |-> out.err, df |-> poses_df]
        ELSE return_poses_legacy(poses_df, out.results, prefix)

\* a or b for job backends
Or(a, b) == IF a # NoJobstarter THEN a ELSE b

\* Runner.generic_run_setup: [err, work_dir, jobstarter, dirs].  jobstarters
\* is <<Runner.run(jobstarter), Runner.jobstarter, poses.default_jobstarter>>.
generic_run_setup(frame, ds, prefix, jobstarters) ==
    LET jobstarter == Or(jobstarters[1], Or(jobstarters[2], jobstarters[3]))
        work_dir == WorkDir \o <<"/">> \o prefix
    IN  IF check_for_prefix(prefix, frame) # "none"
        THEN [err |-> "KeyError", work_dir |-> <<>>, jobstarter |-> NoJobstarter,
              dirs |-> ds]
        ELSE IF jobstarter = NoJobstarter
        THEN [err |-> "ValueError", work_dir |-> <<>>, jobstarter |-> NoJobstarter,
              dirs |-> ds]
        ELSE [err |-> "none", work_dir |-> work_dir, jobstarter |-> jobstarter,
              dirs |-> ds \cup {work_dir}]

\* the name under which a tool writes the outputs of the input file pose
Stem(pose) == SplitextRoot(Basename(pose))

\* the rows of a zip(poses, pose_options)
Zipped(frame, pose_options) == 1..Min({Len(frame.rows), Len(pose_options)})

ColScore == <<"total", "_", "score">>
ColRawDescription == <<"raw", "_", "description">>

\* the commands of RosettaScripts.run: for every pose and its options,
\* nstruct calls of write_cmd
\* the commands built round by round: every pose once, nstruct times
RosettaCmds_by_round(frame, pose_options, a) ==
    [x \in 1..(Cardinality(Zipped(frame, pose_options)) * a.nstruct) |->
        LET n == Cardinality(Zipped(frame, pose_options))
            p == ((x - 1) % n) + 1
            g == parse_generic_options(a.options, pose_options[p], Sep)
        IN  [pose |-> frame.rows[p][ColPoses], i |-> ((x - 1) \div n) + 1,
             opts |-> g.opts, flags |-> g.flags, overwrite |-> a.overwrite]]

RosettaCmds(frame, pose_options, a) ==
    [x \in 1..(Cardinality(Zipped(frame, pose_options)) * a.nstruct) |->
        LET p == ((x - 1) \div a.nstruct) + 1
            g == parse_generic_options(a.options, pose_options[p], Sep)
        IN  [pose |-> frame.rows[p][ColPoses], i |-> ((x - 1) % a.nstruct) + 1,
             opts |-> g.opts, flags |-> g.flags, overwrite |-> a.overwrite]]

\* the lines of the score file Rosetta wrote for the first k commands, after
\* RosettaScripts.collect_scores renamed description to raw_description and
\* added the columns description and location: the output of command i for
\* the pose named d is r000i_d_0001, its description d_000i
RosettaScores(cmds, k, work_dir) ==
    LET d(x) == Stem(cmds[x].pose) \o <<"_", Zfill4(cmds[x].i)>>
    IN  [cols |-> <<ColScore, ColRawDescription, ColDescription, ColLocation>>,
         rows |-> [x \in 1..k |->
                      (ColScore :> Score)
                      @@ (ColRawDescription :>
                             (<<"r", Zfill4(cmds[x].i), "_">> \o Stem(cmds[x].pose)
                              \o <<"_", "0001">>))
                      @@ (ColDescription :> d(x))
                      @@ (ColLocation :> (work_dir \o <<"/">> \o d(x) \o <<".", "pdb">>))]]

\* scorefilepath of RosettaScripts.run
rosetta_scorefilepath(prefix) ==
    PathJoin(WorkDir \o <<"/">> \o prefix, <<"rosettascripts", "_", "scores", ".", "json">>)

\* a run that never looks for the persisted score file
rosettascripts_run_no_resume(frame, d, sf, self_js, poses_js, a, job) ==
    LET setup == generic_run_setup(frame, d.dirs, a.prefix,
                                   <<a.jobstarter, self_js, poses_js>>)
        work_dir == setup.work_dir
        scorefilepath == rosetta_scorefilepath(a.prefix)
        out == [err |-> setup.err, df |-> frame, files |-> d.files, dirs |-> setup.dirs,
                scorefiles |-> sf, steps |-> <<"check_for_prefix">>,
                backend |-> setup.jobstarter, cmds |-> <<>>]
        po == prep_pose_options(frame, a.pose_options)
        cmds == RosettaCmds(frame, po.value, a)
        k == Min({job.k * a.nstruct, Len(cmds)})
        scores == RosettaScores(cmds, k, work_dir)
        written == to_json(scores, RangeIndex(k))
        r == Reconcile(frame, scores, a.prefix, 1)
        started == [out EXCEPT !.steps = @ \o <<"prep_pose_options", "start">>,
                               !.cmds = cmds]
    IN  IF setup.err # "none" THEN out
        ELSE IF po.err # "none"
        THEN [out EXCEPT !.err = po.err, !.steps = @ \o <<"prep_pose_options">>]
        ELSE IF k = 0
        THEN [started EXCEPT !.err = "FileNotFoundError", !.steps = @ \o <<"collect_scores">>]
        ELSE IF ~job.pdbs
        THEN [started EXCEPT !.err = "never returns", !.steps = @ \o <<"collect_scores">>]
        ELSE [started EXCEPT
                 !.err = r.err, !.df = r.df,
                 !.files = @ \cup {scores.rows[x][ColLocation] : x \in 1..k},
                 !.scorefiles = (scorefilepath :> written.doc) @@ @,
                 !.steps = @ \o <<"collect_scores", "to_json", "return_poses">>]

\* RosettaScripts.run.  self_js is self.jobstarter, poses_js is
\* poses.default_jobstarter, a the arguments, job what the backend's jobs
\* do once started: they write the outputs of the first job.k poses, and
\* job.pdbs tells whether the .pdb files appear in work_dir.
rosettascripts_run(frame, d, sf, self_js, poses_js, a, job) ==
    LET setup == generic_run_setup(frame, d.dirs, a.prefix,
                                   <<a.jobstarter, self_js, poses_js>>)
        work_dir == setup.work_dir
        scorefilepath == rosetta_scorefilepath(a.prefix)
        out == [err |-> setup.err, df |-> frame, files |-> d.files, dirs |-> setup.dirs,
                scorefiles |-> sf, steps |-> <<"check_for_prefix">>,
                backend |-> setup.jobstarter, cmds |-> <<>>]
        \* elif overwrite and os.path.isdir(work_dir): os.remove(scorefilepath)
        removed == IF a.overwrite
                   THEN [out EXCEPT !.scorefiles =
                            [f \in DOMAIN sf \ {scorefilepath} |-> sf[f]]]
                   ELSE out
        po == prep_pose_options(frame, a.pose_options)
        cmds == RosettaCmds(frame, po.value, a)
        k == Min({job.k * a.nstruct, Len(cmds)})
        scores == RosettaScores(cmds, k, work_dir)
        written == to_json(scores, RangeIndex(k))
        started == [removed EXCEPT !.steps = @ \o <<"prep_pose_options", "start">>,
                                   !.cmds = cmds]
    IN  IF setup.err # "none" THEN out
        ELSE IF ~a.overwrite /\ scorefilepath \in DOMAIN sf
        THEN LET r == Reconcile(frame, read_json(sf[scorefilepath]), a.prefix, 1)
             IN  [out EXCEPT !.err = r.err, !.df = r.df,
                             !.steps = @ \o <<"read_json", "return_poses">>]
        ELSE IF po.err # "none"
        THEN [removed EXCEPT !.err = po.err, !.steps = @ \o <<"prep_pose_options">>]
        ELSE IF k = 0
        THEN [started EXCEPT !.err = "FileNotFoundError", !.steps = @ \o <<"collect_scores">>]
        ELSE IF ~job.pdbs
        THEN [started EXCEPT !.err = "never returns", !.steps = @ \o <<"collect_scores">>]
        ELSE LET r == Reconcile(frame, scores, a.prefix, 1)
             IN  [started EXCEPT
                     !.err = r.err, !.df = r.df,
                     !.files = @ \cup {scores.rows[x][ColLocation] : x \in 1..k},
                     !.scorefiles = (scorefilepath :> written.doc) @@ @,
                     !.steps = @ \o <<"collect_scores", "to_json", "return_poses">>]

\* RFdiffusion.create_pose_options: [err, value].  A column name is looked
\* up with to_list(), None gives one empty string for every pose, and the
\* lengths must agree.
create_pose_options(frame, pose_options) ==
    IF pose_options.kind = "column" /\ pose_options.name \notin Range(frame.cols)
    THEN [err |-> "ValueError", value |-> <<>>]
    ELSE LET opts == IF pose_options.kind = "column"
                     THEN Column(frame, pose_options.name)
                     ELSE IF pose_options.kind = "none"
                     THEN [i \in DOMAIN frame.rows |-> <<>>]
                     ELSE pose_options.list
         IN  IF Len(frame.rows) # Len(opts)
             THEN [err |-> "ValueError", value |-> <<>>]
             ELSE [err |-> "none", value |-> opts]

\* "=".join(x.split("=")[1:])
AfterEquals(x) == Join(Tail(Split(x, "=")), "=")

\* RFdiffusion.write_cmd.parse_rfdiffusion_opts: the dict of the words of
\* options and then of pose_options, each split at its first "="
RECURSIVE WordDict(_, _)
WordDict(words, dict) ==
    IF words = <<>> THEN dict
    ELSE WordDict(Tail(words),
                  DictSet(dict, Split(words[1], "=")[1], AfterEquals(words[1])))

parse_rfdiffusion_opts(options, pose_options) ==
    WordDict(Words(options) \o Words(pose_options), <<>>)

\* the commands of RFdiffusion.run, one write_cmd for every pose and its
\* options; re.split raises TypeError when options is None
RFdiffusionCmds(frame, pose_options, a) ==
    [p \in Zipped(frame, pose_options) |->
        [pose |-> frame.rows[p][ColPoses],
         opts |-> parse_rfdiffusion_opts(a.options, pose_options[p]),
         num_designs |-> a.num_diffusions]]

ColPlddt == <<"plddt">>
ColInputPdb == <<"input", "_", "pdb">>

\* the table RFdiffusion.collect_scores builds from the .trb files of the
\* first k poses, n outputs each: output j of the pose named d is d_j, and
\* rename_pdbs makes its description d_000(j+1)
RFdiffusionScores(cmds, k, n, pdb_dir) ==
    LET pose(x) == cmds[((x - 1) \div n) + 1].pose
        d(x) == Stem(pose(x)) \o <<"_", Zfill4(((x - 1) % n) + 1)>>
    IN  [cols |-> <<ColPlddt, ColInputPdb, ColDescription, ColLocation>>,
         rows |-> [x \in 1..(k * n) |->
                      (ColPlddt :> Score)
                      @@ (ColInputPdb :> pose(x))
                      @@ (ColDescription :> d(x))
                      @@ (ColLocation :> (pdb_dir \o <<"/">> \o d(x) \o <<".", "pdb">>))]]

\* a path below the directory dir
Below(path, dir) ==
    /\ Len(path) > Len(dir) + 1
    /\ SubSeq(path, 1, Len(dir) + 1) = dir \o <<"/">>

\* scorefilepath of RFdiffusion.run
rfdiffusion_scorefilepath(output_dir) ==
    PathJoin(output_dir, <<"rfdiffusion", "_", "scores", ".", "json">>)

\* RFdiffusion.run.  poses_js is poses.default_jobstarter, a the arguments,
\* job what the backend's jobs do once started: they write the outputs of
\* the first job.k poses.  scores.reset_index(drop=True) is not in place, so
\* every row of scores keeps the index 0 of its .trb frame.
rfdiffusion_run(frame, d, sf, poses_js, a, job) ==
    LET work_dir == a.output_dir
        pdb_dir == PathJoin(work_dir, <<"output", "_", "pdbs">>)
        scorefilepath == rfdiffusion_scorefilepath(a.output_dir)
        out == [err |-> "none", df |-> frame, files |-> d.files,
                dirs |-> d.dirs \cup {work_dir, pdb_dir}, scorefiles |-> sf,
                steps |-> <<>>, backend |-> Or(a.jobstarter, poses_js), cmds |-> <<>>]
        \* os.remove of the score file and of every .pdb with its .trb
        cleared == [out EXCEPT
                       !.scorefiles = [f \in DOMAIN sf \ {scorefilepath} |-> sf[f]],
                       !.files = {f \in d.files : ~Below(f, pdb_dir)}]
        po == create_pose_options(frame, a.pose_options)
        cmds == RFdiffusionCmds(frame, po.value, a)
        k == Min({job.k, Len(cmds)})
        scores == RFdiffusionScores(cmds, k, a.num_diffusions, pdb_dir)
        written == to_json(scores, [x \in DOMAIN scores.rows |-> 0])
        started == [cleared EXCEPT !.steps = @ \o <<"create_pose_options", "start">>,
                                   !.cmds = cmds]
        collected == [started EXCEPT
                         !.files = @ \cup {scores.rows[x][ColLocation] :
                                              x \in DOMAIN scores.rows},
                         !.steps = @ \o <<"collect_scores">>]
    IN  IF ~a.overwrite /\ scorefilepath \in DOMAIN sf
        THEN LET r == ReconcileLegacy(frame, read_json(sf[scorefilepath]), a.prefix, 1)
             IN  [out EXCEPT !.err = r.err, !.df = r.df,
                             !.steps = @ \o <<"read_json", "return_poses">>]
        ELSE IF po.err # "none"
        THEN [cleared EXCEPT !.err = po.err, !.steps = @ \o <<"create_pose_options">>]
        ELSE IF cmds # <<>> /\ a.options = None
        THEN [cleared EXCEPT !.err = "TypeError",
                             !.steps = @ \o <<"create_pose_options", "write_cmd">>]
        ELSE IF out.backend = NoJobstarter
        THEN [cleared EXCEPT !.err = "AttributeError", !.cmds = cmds,
                             !.steps = @ \o <<"create_pose_options">>]
        ELSE IF k = 0
        THEN [started EXCEPT !.err = "FileNotFoundError",
                             !.steps = @ \o <<"collect_scores">>]
        ELSE IF written.err # "none"
        THEN [collected EXCEPT !.err = written.err, !.steps = @ \o <<"to_json">>]
        ELSE LET r == ReconcileLegacy(frame, scores, a.prefix, 1)
             IN  [collected EXCEPT
                     !.err = r.err, !.df = r.df,
                     !.scorefiles = (scorefilepath :> written.doc) @@ @,
                     !.steps = @ \o <<"to_json", "return_poses">>]

---------------------------------------------------------------------------
(* The inputs of the model                                                 *)

Pdb(dir, stem) == <<dir, "/">> \o stem \o <<".", "pdb">>

\* the files and directories that exist before the program starts
InitialFiles == {Pdb("d1", <<"a">>), Pdb("d2", <<"a">>), Pdb("d1", <<"b", ".", "x">>)}
\* d3 is an empty directory
InitialDirs == {<<"d1">>, <<"d2">>, <<"d3">>}

\* the paths a caller lists; the last one does not exist
CandidatePaths == <<Pdb("d1", <<"a">>), Pdb("d1", <<"b", ".", "x">>),
                    Pdb("d2", <<"a">>), Pdb("d1", <<"m">>)>>

\* the lists of at most MaxPoses candidate paths, in the candidates' order
PathLists ==
    {[i \in DOMAIN pick |-> CandidatePaths[pick[i]]] :
        pick \in {p \in UNION {[1..n -> DOMAIN CandidatePaths] : n \in 0..MaxPoses} :
                     \A i \in DOMAIN p : \A j \in DOMAIN p : i < j => p[i] < p[j]}}

GlobSuffixes == {<<"*", ".", "pdb">>, <<"*", ".", "fa">>}

\* tables a caller passes to Poses(poses=<DataFrame>) or load_poses
StoredRow(input, path, description) ==
    (ColInputPoses :> input) @@ (ColPoses :> path) @@ (ColPosesDescription :> description)
StoredTables ==
    { \* a registry as saved in the middle of an earlier pipeline
      [cols |-> MandatoryCols,
       rows |-> <<StoredRow(Pdb("d1", <<"a">>), Pdb("out", <<"a", "_", "0001">>),
                            <<"a", "_", "0001">>)>>],
      \* a table without the poses_description column
      [cols |-> <<ColInputPoses, ColPoses>>,
       rows |-> <<(ColInputPoses :> Pdb("d1", <<"a">>))
                  @@ (ColPoses :> Pdb("d1", <<"a">>))>>] }

CreateInputs ==
    {[kind |-> "list", list |-> l] : l \in PathLists}
    \cup {[kind |-> "str", path |-> CandidatePaths[i], glob |-> <<>>] :
             i \in DOMAIN CandidatePaths}
    \cup {[kind |-> "str", path |-> d, glob |-> g] :
             d \in {<<"d1">>, <<"d2">>}, g \in GlobSuffixes}
    \cup {[kind |-> "table", table |-> t] : t \in StoredTables}
    \cup {[kind |-> "none"]}

\* stage prefixes: p_q is the prefix p followed by a further token
Prefixes == {<<"p">>, <<"p", "_", "q">>}

\* where runners write their output
OutDir == <<"out">>

\* the calls of change_poses_dir: into d2 and the empty d3, and into d4,
\* which is no directory; copies go to d3
RelocateCalls ==
    {[poses_dir |-> d, copy |-> FALSE, overwrite |-> FALSE] :
        d \in {<<"d2">>, <<"d3">>, <<"d4">>}}
    \cup {[poses_dir |-> <<"d3">>, copy |-> TRUE, overwrite |-> o] : o \in BOOLEAN}

\* the texts between separators: "x 1", "x=1=2", "y", "y 1  2", "=1", " ",
\* "x=1 y", "x 2"
Fragments ==
    << <<"x", " ", "1">>,
       <<"x", "=", "1", "=", "2">>,
       <<"y">>,
       <<"y", " ", "1", " ", " ", "2">>,
       <<"=", "1">>,
       <<" ">>,
       <<"x", "=", "1", " ", "y">>,
       <<"x", " ", "2">> >>

\* "--f1 --f2 ..." for the fragments picked
RECURSIVE Written(_)
Written(pick) ==
    IF pick = <<>> THEN <<>>
    ELSE Sep \o Fragments[pick[1]]
         \o (IF Len(pick) > 1 THEN <<" ">> ELSE <<>>) \o Written(Tail(pick))

\* the option strings: None, "", " ", "--", a text without separator, and
\* the strings of up to MaxFragments fragments
OptionStrings ==
    {None, <<>>, <<" ">>, Sep, Fragments[1]}
    \cup {Written(pick) :
             pick \in UNION {[1..n -> DOMAIN Fragments] : n \in 1..MaxFragments}}

\* the per-pose option strings: None, "", and up to MaxFragments of the
\* fragments "y", "=1", "x 2"
PoseOptionStrings ==
    {None, <<>>}
    \cup {Written(pick) :
             pick \in UNION {[1..n -> {3, 5, 8}] : n \in 1..MaxFragments}}

\* the pose_options arguments: a column the registry has, one it has not, the
\* lists of up to MaxResults option strings, and None
PoseOptionArgs ==
    {[kind |-> "column", name |-> c] : c \in {ColPoses, <<"opts">>}}
    \cup {[kind |-> "list", list |-> [i \in 1..n |-> <<"-", "-", "x">>]] :
             n \in 0..MaxResults}
    \cup {[kind |-> "none"]}

\* one row of a raw result table: description, location and one score column
ResultRow(description, score_col) ==
    (ColDescription :> description)
    @@ (ColLocation :> (OutDir \o <<"/">> \o description \o <<".", "pdb">>))
    @@ (score_col :> Score)

\* The raw result table of a runner that wrote n outputs for each of the
\* first k poses of the registry and u outputs that belong to no pose.  A
\* runner of kind "indexed" appends an index token to the pose's description
\* and reports a column score; a runner of kind "plain" keeps the description
\* and reports a column q_score.
RunnerTable(frame, kind, k, n, u) ==
    LET score_col == IF kind = "indexed" THEN <<"score">> ELSE <<"q", "_", "score">>
        name(d, j) == IF kind = "indexed" THEN d \o <<"_", Zfill4(j)>> ELSE d
        own == [x \in 1..(k * n) |->
                   ResultRow(name(frame.rows[((x - 1) \div n) + 1][ColPosesDescription],
                                  ((x - 1) % n) + 1), score_col)]
        stray == [x \in 1..u |-> ResultRow(name(<<"z">>, x), score_col)]
    IN  [cols |-> <<ColDescription, ColLocation, score_col>>, rows |-> own \o stray]

\* a table without the location column, and one whose description is not the
\* name of its location
NoLocationTable ==
    [cols |-> <<ColDescription>>, rows |-> <<(ColDescription :> <<"a">>)>>]
MismatchTable ==
    [cols |-> <<ColDescription, ColLocation>>,
     rows |-> <<(ColDescription :> <<"a">>)
                @@ (ColLocation :> Pdb("out", <<"b">>))>>]

\* the runner wrote output for no pose, for the first pose only, or for all
Served(frame) == {0, 1, Len(frame.rows)} \cap 0..Len(frame.rows)

RawTables(frame) ==
    {RunnerTable(frame, "indexed", k, n, u) :
        k \in Served(frame), n \in {1, MaxFan}, u \in 0..1}
    \cup {RunnerTable(frame, "plain", k, 1, u) : k \in Served(frame), u \in 0..1}
    \cup {NoLocationTable, MismatchTable}

---------------------------------------------------------------------------
(* The state machine                                                       *)

\* Poses(): an empty registry with the three mandatory columns
Init ==
    /\ df = EmptyFrame(MandatoryCols)
    /\ files = InitialFiles
    /\ dirs = InitialDirs
    /\ last = [op |-> "init", err |-> "none"]
    /\ pre = EmptyFrame(MandatoryCols)
    /\ contents = [f \in {} |-> <<>>]
    /\ scorefiles = [f \in {} |-> <<>>]
    /\ default_jobstarter = "sbatch"

\* the disk as the operations of Poses take it
Disk == [files |-> files, contents |-> contents, dirs |-> dirs]

\* the driver is between two calls
Idle == last.op \in {"init", "idle"}

\* Poses(poses=..., glob_suffix=...) and load_poses: set_poses on the fresh object
SetPoses ==
    /\ last.op = "init"
    /\ \E inp \in CreateInputs :
         \E listing \in (IF inp.kind = "str" /\ inp.glob # <<>>
                         THEN Listings(GlobMatches(files, inp.path, inp.glob))
                         ELSE {<<>>}) :
            LET r == set_poses(df, Disk, inp, listing, FALSE)
            IN  /\ df' = r.df
                /\ files' = r.d.files
                /\ contents' = r.d.contents
                /\ dirs' = r.d.dirs
                /\ last' = [op |-> "set_poses", err |-> r.err, input |-> inp]
                /\ pre' = df
                /\ UNCHANGED <<scorefiles, default_jobstarter>>

\* Poses.change_poses_dir(poses_dir, copy, overwrite)
ChangePosesDir ==
    /\ Idle
    /\ \E call \in RelocateCalls :
        LET r == change_poses_dir(df, files, dirs, call.poses_dir, call.copy,
                                  call.overwrite)
        IN  /\ df' = r.df
            /\ files' = r.files
            /\ dirs' = r.dirs
            /\ last' = [op |-> "change_poses_dir", err |-> r.err, call |-> call]
            /\ pre' = df
            /\ UNCHANGED others

\* Poses.duplicate_poses(output_dir, n_duplicates)
DuplicatePoses ==
    /\ Idle
    /\ \E output_dir \in {<<"d3">>}, n \in 0..MaxFan :
        LET r == duplicate_poses(df, files, output_dir, n)
        IN  /\ df' = r.df
            /\ files' = r.files
            /\ last' = [op |-> "duplicate_poses", err |-> r.err,
                        output_dir |-> output_dir, n |-> n]
            /\ pre' = df
            /\ UNCHANGED <<dirs, others>>

\* RunnerOutput(poses, results, prefix, index_layers).return_poses()
ReturnPoses ==
    /\ Idle
    /\ \E prefix \in Prefixes, index_layers \in 0..1, results \in RawTables(df) :
        /\ Len(results.rows) <= MaxResults
        /\ LET r == Reconcile(df, results, prefix, index_layers)
           IN  /\ df' = r.df
               /\ last' = [op |-> "return_poses", err |-> r.err, prefix |-> prefix,
                           index_layers |-> index_layers, results |-> results]
               /\ pre' = df
               /\ UNCHANGED <<files, dirs, others>>

\* Runner.check_for_prefix(prefix, poses)
CheckForPrefix ==
    /\ Idle
    /\ \E prefix \in Prefixes \cup {ColPoses} :
        /\ last' = [op |-> "check_for_prefix", err |-> check_for_prefix(prefix, df),
                    prefix |-> prefix]
        /\ pre' = df
        /\ UNCHANGED <<df, files, dirs, others>>

\* Runner.prep_pose_options(poses, pose_options)
PrepPoseOptions ==
    /\ Idle
    /\ \E arg \in PoseOptionArgs :
        LET r == prep_pose_options(df, arg)
        IN  /\ last' = [op |-> "prep_pose_options", err |-> r.err, arg |-> arg,
                        value |-> r.value]
            /\ pre' = df
            /\ UNCHANGED <<df, files, dirs, others>>

\* the call has returned or raised; the driver goes on
Return ==
    /\ ~Idle
    /\ last' = [op |-> "idle", err |-> "none"]
    /\ pre' = df
    /\ UNCHANGED <<df, files, dirs, others>>

Next ==
    \/ SetPoses
    \/ ChangePosesDir
    \/ DuplicatePoses
    \/ ReturnPoses
    \/ CheckForPrefix
    \/ PrepPoseOptions
    \/ Return

Spec == Init /\ [][Next]_vars

---------------------------------------------------------------------------
(* Option parsing on its own: the functions applied to the option strings  *)

\* expand_options_flags(options_str)
ExpandOptionsFlags ==
    /\ Idle
    /\ \E options_str \in OptionStrings :
        LET r == expand_options_flags(options_str, Sep)
        IN  last' = [op |-> "expand_options_flags", err |-> "none",
                     options_str |-> options_str, opts |-> r.opts, flags |-> r.flags]
    /\ pre' = df
    /\ UNCHANGED <<df, files, dirs, others>>

\* parse_generic_options(options, pose_options)
ParseGenericOptions ==
    /\ Idle
    /\ \E options \in OptionStrings, pose_options \in PoseOptionStrings :
        LET r == parse_generic_options(options, pose_options, Sep)
        IN  last' = [op |-> "parse_generic_options", err |-> "none",
                     options |-> options, pose_options |-> pose_options,
                     opts |-> r.opts, flags |-> r.flags]
    /\ pre' = df
    /\ UNCHANGED <<df, files, dirs, others>>

NextOptions ==
    \/ ExpandOptionsFlags
    \/ ParseGenericOptions
    \/ Return

SpecOptions == Init /\ [][NextOptions]_vars

---------------------------------------------------------------------------
(* Creation from fasta files: the registry is created from lists that      *)
(* name fasta files with one record and with several records               *)

Fa(dir, stem) == <<dir, "/">> \o stem \o <<".", "fa">>

\* the records of the fasta files that exist before the program starts
FastaContents ==
    (Fa("d1", <<"m">>) :> << <<(<<"r1">>), <<"AA">> >>, <<(<<"r2">>), <<"CC">> >> >>)
    @@ (Fa("d1", <<"n">>) :> << <<(<<"r3">>), <<"GG">> >>, <<(<<"r4">>), <<"TT">> >> >>)
    @@ (Fa("d1", <<"s">>) :> << <<(<<"r5">>), <<"AC">> >> >>)

\* the paths a caller lists
FastaCandidates == <<Fa("d1", <<"m">>), Fa("d1", <<"n">>), Fa("d1", <<"s">>),
                     Pdb("d1", <<"a">>)>>

\* the lists of at most MaxPoses paths, in any order
FastaLists ==
    {[i \in DOMAIN pick |-> FastaCandidates[pick[i]]] :
        pick \in UNION {[1..n -> DOMAIN FastaCandidates] : n \in 0..MaxPoses}}

InitFasta ==
    /\ df = EmptyFrame(MandatoryCols)
    /\ files = InitialFiles \cup DOMAIN FastaContents
    /\ dirs = InitialDirs
    /\ last = [op |-> "init", err |-> "none"]
    /\ pre = EmptyFrame(MandatoryCols)
    /\ contents = FastaContents
    /\ scorefiles = [f \in {} |-> <<>>]
    /\ default_jobstarter = "sbatch"

\* Poses(poses=[...]): __init__ calls set_poses before set_work_dir
CreateFromList ==
    /\ last.op = "init"
    /\ \E l \in FastaLists :
         LET inp == [kind |-> "list", list |-> l]
             r == set_poses(df, Disk, inp, <<>>, FALSE)
         IN  /\ df' = r.df
             /\ files' = r.d.files
             /\ contents' = r.d.contents
             /\ dirs' = r.d.dirs
             /\ last' = [op |-> "set_poses", err |-> r.err, input |-> inp]
             /\ pre' = df
             /\ UNCHANGED <<scorefiles, default_jobstarter>>

\* poses.set_poses([...]) on an object whose constructor has returned
SetPosesOfList ==
    /\ last.op = "idle"
    /\ \E l \in FastaLists :
         LET inp == [kind |-> "list", list |-> l]
             r == set_poses(df, Disk, inp, <<>>, TRUE)
         IN  /\ df' = r.df
             /\ files' = r.d.files
             /\ contents' = r.d.contents
             /\ dirs' = r.d.dirs
             /\ last' = [op |-> "set_poses_on_object", err |-> r.err, input |-> inp]
             /\ pre' = df
             /\ UNCHANGED <<scorefiles, default_jobstarter>>

NextFasta ==
    \/ CreateFromList
    \/ SetPosesOfList
    \/ Return

SpecFasta == InitFasta /\ [][NextFasta]_vars

---------------------------------------------------------------------------
(* The runners at work: a registry is created, a runner is run on it, and  *)
(* the same call is made a second time, in the same process or in a new    *)
(* one                                                                     *)

Jobstarters(name) == {NoJobstarter, name}

\* options of RosettaScripts.run and of RFdiffusion.run
RosettaOptions == {None, Sep \o <<"x", " ", "1">>}
RFdiffusionOptions == {None, <<"x", "=", "1">>}

\* pose_options is not given
RunPoseOptions == {[kind |-> "none"]}

RosettaArgs ==
    [prefix : Prefixes, jobstarter : Jobstarters("run_js"), nstruct : {1, MaxFan},
     options : RosettaOptions, pose_options : RunPoseOptions, overwrite : BOOLEAN]

RFdiffusionArgs ==
    [output_dir : {OutDir, <<"out2">>}, prefix : Prefixes, jobstarter : Jobstarters("run_js"),
     num_diffusions : {1, MaxFan}, options : RFdiffusionOptions,
     pose_options : RunPoseOptions, overwrite : BOOLEAN]

\* what the jobs of the backend do: they write the outputs of the first k
\* poses, or those of all poses without the .pdb files appearing
Jobs(frame) ==
    {[k |-> k, pdbs |-> TRUE] : k \in Served(frame)}
    \cup {[k |-> Len(frame.rows), pdbs |-> FALSE]}

\* the outputs and the score files an earlier process left behind: a
\* RosettaScripts run with prefix p and an RFdiffusion run in out, each of the
\* registry of d1/a.pdb, one output each
EarlierCmds == <<[pose |-> Pdb("d1", <<"a">>), i |-> 1]>>
EarlierRosetta == RosettaScores(EarlierCmds, 1, WorkDir \o <<"/", "p">>)
EarlierRFdiffusion ==
    RFdiffusionScores(EarlierCmds, 1, 1, PathJoin(OutDir, <<"output", "_", "pdbs">>))

PersistedScores ==
    (rosetta_scorefilepath(<<"p">>) :> to_json(EarlierRosetta, RangeIndex(1)).doc)
    @@ (rfdiffusion_scorefilepath(OutDir) :> to_json(EarlierRFdiffusion, <<0>>).doc)

InitRun ==
    /\ df = EmptyFrame(MandatoryCols)
    /\ files = InitialFiles \cup {EarlierRosetta.rows[1][ColLocation],
                                  EarlierRFdiffusion.rows[1][ColLocation]}
    /\ dirs = InitialDirs \cup {WorkDir \o <<"/", "p">>, OutDir,
                                PathJoin(OutDir, <<"output", "_", "pdbs">>)}
    /\ last = [op |-> "init", err |-> "none"]
    /\ pre = EmptyFrame(MandatoryCols)
    /\ contents = [f \in {} |-> <<>>]
    /\ scorefiles = PersistedScores
    /\ default_jobstarter \in Jobstarters("sbatch")

\* Poses(poses=[...]) for the runs
CreateForRun ==
    /\ last.op = "init"
    /\ \E l \in PathLists :
         LET inp == [kind |-> "list", list |-> l]
             r == set_poses(df, Disk, inp, <<>>, FALSE)
         IN  /\ r.err = "none"
             /\ df' = r.df
             /\ last' = [op |-> "set_poses", err |-> r.err, input |-> inp]
             /\ pre' = df
             /\ UNCHANGED <<files, dirs, others>>

\* the call runner.run(args) may be made: it is the first call on the
\* registry, or the call just made is made a second time, in the same
\* process or after a restart
MayRun(runner, self_js, a) ==
    \/ last.op \in {"init", "set_poses"}
    \/ /\ \/ last.op = "run" /\ ~last.repeat /\ last.err # "never returns"
          \/ last.op = "restarted"
       /\ last.runner = runner
       /\ last.self_js = self_js
       /\ last.args = a

\* the backend's jobs did nothing: the backend was not started
NoJob == [k |-> 0, pdbs |-> FALSE]

\* what a run leaves behind.  For the second of two equal calls, first is the
\* registry the first call left; job is what the backend's jobs did.
Ran(runner, self_js, a, had_file, job, r) ==
    /\ df' = r.df
    /\ files' = r.files
    /\ dirs' = r.dirs
    /\ scorefiles' = r.scorefiles
    /\ last' = [op |-> "run", err |-> r.err, runner |-> runner, self_js |-> self_js,
                args |-> a, had_file |-> had_file,
                repeat |-> (last.op \in {"run", "restarted"}),
                first |-> IF last.op = "restarted" THEN last.first ELSE df,
                steps |-> r.steps, backend |-> r.backend, cmds |-> r.cmds,
                job |-> IF "start" \in Range(r.steps) THEN job ELSE NoJob]
    /\ pre' = df
    /\ UNCHANGED <<contents, default_jobstarter>>

\* the process ends after a call of run and a new process builds the
\* registry again as it was before that call; the disk stays
Restart ==
    /\ last.op = "run"
    /\ ~last.repeat
    /\ last.err # "never returns"
    /\ df' = pre
    /\ last' = [op |-> "restarted", err |-> "none", runner |-> last.runner,
                self_js |-> last.self_js, args |-> last.args, first |-> df]
    /\ UNCHANGED <<files, dirs, pre, others>>

\* RosettaScripts(jobstarter=self_js).run(poses, ...)
RunRosettaScripts ==
    \E self_js \in Jobstarters("runner_js"), a \in RosettaArgs, job \in Jobs(df) :
        /\ MayRun("RosettaScripts", self_js, a)
        /\ Ran("RosettaScripts", self_js, a,
               rosetta_scorefilepath(a.prefix) \in DOMAIN scorefiles, job,
               rosettascripts_run(df, Disk, scorefiles, self_js, default_jobstarter, a, job))

\* RFdiffusion().run(poses, ...)
RunRFdiffusion ==
    \E a \in RFdiffusionArgs, job \in {j \in Jobs(df) : j.pdbs} :
        /\ MayRun("RFdiffusion", NoJobstarter, a)
        /\ Ran("RFdiffusion", NoJobstarter, a,
               rfdiffusion_scorefilepath(a.output_dir) \in DOMAIN scorefiles, job,
               rfdiffusion_run(df, Disk, scorefiles, default_jobstarter, a, job))

NextRun ==
    \/ CreateForRun
    \/ RunRosettaScripts
    \/ RunRFdiffusion
    \/ Restart

SpecRun == InitRun /\ [][NextRun]_vars

---------------------------------------------------------------------------
(* Reconciliation by both RunnerOutput classes: that of                    *)
(* src/protslurm/runners.py and that of src/protslurm/runners/runners.py,  *)
(* which RFdiffusion imports                                               *)

\* RunnerOutput(poses, results, prefix, index_layers).return_poses() of
\* src/protslurm/runners/runners.py
ReturnPosesLegacy ==
    /\ Idle
    /\ \E prefix \in Prefixes, index_layers \in 0..1, results \in RawTables(df) :
        /\ Len(results.rows) <= MaxResults
        /\ LET r == ReconcileLegacy(df, results, prefix, index_layers)
           IN  /\ df' = r.df
               /\ last' = [op |-> "return_poses_legacy", err |-> r.err, prefix |-> prefix,
                           index_layers |-> index_layers, results |-> results]
               /\ pre' = df
               /\ UNCHANGED <<files, dirs, others>>

\* a key handed to get_pose: a str, or (against the annotation) an int
StrKey(s) == [type |-> "str", value |-> s]
IntKey(n) == [type |-> "int", value |-> n]

\* key in df[col]: membership in a Series tests the index labels, which are
\* the integers of the RangeIndex, never the values of the column
SeriesContains(frame, col, key) ==
    key.type = "int" /\ key.value \in Range(RangeIndex(Len(frame.rows)))

\* the rows selected by df[df[col] == key]
RowsEqual(frame, col, key) ==
    SelectSeq(frame.rows, LAMBDA row : key.type = "str" /\ row[col] = key.value)

\* Poses.get_pose: [err, loaded], loaded being the path handed to
\* load_structure_from_pdbfile
get_pose(frame, fs, pose_description) ==
    IF ~SeriesContains(frame, ColPosesDescription, pose_description)
    THEN [err |-> "KeyError", loaded |-> None]
    ELSE LET hits == RowsEqual(frame, ColPosesDescription, pose_description)
         IN  IF Len(hits) = 0
             THEN [err |-> "IndexError", loaded |-> None]
             ELSE IF hits[1][ColPoses] \notin fs
             THEN [err |-> "FileNotFoundError", loaded |-> hits[1][ColPoses]]
             ELSE [err |-> "none", loaded |-> hits[1][ColPoses]]

\* the keys a caller looks up: the descriptions of the registry, a
\* description that is in no registry, and row numbers
StrKeys(frame) ==
    {StrKey(s) : s \in Range(Column(frame, ColPosesDescription)) \cup {<<"y">>}}
IntKeys(frame) == {IntKey(n) : n \in {0, Len(frame.rows)}}

\* get_pose with its result r
GetPoseReturns(pose_description, r) ==
    /\ last' = [op |-> "get_pose", err |-> r.err,
                pose_description |-> pose_description, loaded |-> r.loaded]
    /\ pre' = df
    /\ UNCHANGED <<df, files, dirs, others>>

GetPose ==
    /\ Idle
    /\ last.op = "idle"
    /\ \/ \E key \in StrKeys(df) : GetPoseReturns(key, get_pose(df, files, key))
       \/ \E key \in IntKeys(df) : GetPoseReturns(key, get_pose(df, files, key))

NextReconcile ==
    \/ SetPoses
    \/ ReturnPoses
    \/ ReturnPosesLegacy
    \/ GetPose
    \/ Return

SpecReconcile == Init /\ [][NextReconcile]_vars

---------------------------------------------------------------------------
(* Join keys: a registry of one pose and a result of one row               *)

\* the pose files of the scenario; the first one has an empty stem
KeyPoses == {Pdb("d1", <<>>), Pdb("d1", <<"a">>), Pdb("d1", <<"a", "_", "a">>)}

\* the descriptions a runner reports: the strings over a and the separator
KeyDescriptions == UNION {[1..n -> {"a", "_"}] : n \in 0..MaxKeyLen}

InitKey ==
    /\ df = EmptyFrame(MandatoryCols)
    /\ files = InitialFiles \cup KeyPoses
    /\ dirs = InitialDirs
    /\ last = [op |-> "init", err |-> "none"]
    /\ pre = EmptyFrame(MandatoryCols)
    /\ contents = [f \in {} |-> <<>>]
    /\ scorefiles = [f \in {} |-> <<>>]
    /\ default_jobstarter = "sbatch"

\* Poses(poses=<path of one file>)
CreateForKey ==
    /\ last.op = "init"
    /\ \E path \in KeyPoses :
         LET inp == [kind |-> "str", path |-> path, glob |-> <<>>]
             r == set_poses(df, Disk, inp, <<>>, FALSE)
         IN  /\ df' = r.df
             /\ files' = r.d.files
             /\ contents' = r.d.contents
             /\ dirs' = r.d.dirs
             /\ last' = [op |-> "set_poses", err |-> r.err, input |-> inp]
             /\ pre' = df
             /\ UNCHANGED <<scorefiles, default_jobstarter>>

\* RunnerOutput(poses, results, prefix, index_layers).return_poses() for a
\* result of one row; key is the row's <prefix>_select_col
ReturnPosesOfOne ==
    /\ last.op = "set_poses"
    /\ last.err = "none"
    /\ \E description \in KeyDescriptions, index_layers \in 0..MaxLayers :
         LET results == [cols |-> <<ColDescription, ColLocation, <<"score">>>>,
                         rows |-> <<ResultRow(description, <<"score">>)>>]
             prefix == <<"p">>
             out == RunnerOutputInit(results, prefix, index_layers, "_")
             r == Reconcile(df, results, prefix, index_layers)
         IN  /\ df' = r.df
             /\ last' = [op |-> "select_col", err |-> r.err, prefix |-> prefix,
                         index_layers |-> index_layers, results |-> results,
                         description |-> description,
                         key |-> IF out.err = "none"
                                 THEN out.results.rows[1][Prefixed(prefix, ColSelectCol)]
                                 ELSE None]
             /\ pre' = df
             /\ UNCHANGED <<files, dirs, others>>

NextKey == CreateForKey \/ ReturnPosesOfOne

SpecKey == InitKey /\ [][NextKey]_vars

---------------------------------------------------------------------------
(* Persisting and restoring the registry (src/protslurm/poses.py)          *)

\* a cell holding a Python list of strings, and one holding a numpy array
ListCell(items) == <<"[list]">> \o items
NdarrayCell(items) == <<"[ndarray]">> \o items
IsList(v) == Len(v) > 0 /\ v[1] = "[list]"

\* str(n) of a row label
PyStr(n) == <<(<<"0", "1", "2", "3", "4", "5", "6", "7", "8", "9">>)[n + 1]>>

\* the name read_csv gives to the j-th column when its header is empty
Unnamed(j) == <<"Unnamed", ":", " ">> \o PyStr(j - 1)

\* one cell as DataFrame.to_csv writes it: a missing value is the empty
\* field, a list is its str()
CsvField(v) ==
    IF v \in {None, NaN} THEN <<>>
    ELSE IF IsList(v) THEN <<"[">> \o Tail(v) \o <<"]">>
    ELSE v

\* one field as pd.read_csv reads it
CsvValue(field) == IF field = <<>> THEN NaN ELSE field

\* DataFrame.to_csv(path): the index is written as a first column whose
\* header is empty
to_csv(frame, index) ==
    [err |-> "none",
     doc |-> [header |-> <<<<>>>> \o frame.cols,
              records |-> [i \in DOMAIN frame.rows |->
                              <<PyStr(index[i])>>
                              \o [j \in DOMAIN frame.cols |->
                                     CsvField(frame.rows[i][frame.cols[j]])]]]]

\* pd.read_csv(path): every column of the file is a column of the frame
read_csv(doc) ==
    LET names == [j \in DOMAIN doc.header |->
                     IF doc.header[j] = <<>> THEN Unnamed(j) ELSE doc.header[j]]
    IN  [cols |-> names,
         rows |-> [i \in DOMAIN doc.records |->
                      [c \in Range(names) |->
                          CsvValue(doc.records[i][CHOOSE j \in DOMAIN names : names[j] = c])]]]

\* DataFrame.to_pickle(path) and pd.read_pickle(path): the object itself
to_pickle(frame, index) == [err |-> "none", doc |-> [frame |-> frame, index |-> index]]
read_pickle(doc) == doc.frame

\* one cell in an Arrow table: a missing value is null
ArrowCell(v) == IF v \in {None, NaN} THEN <<"null">> ELSE v

\* one Arrow cell in the frame read back: null is None, a list is an ndarray
FromArrowCell(v) ==
    IF v = <<"null">> THEN None
    ELSE IF IsList(v) THEN NdarrayCell(Tail(v))
    ELSE v

ToArrow(frame, index) ==
    [columns |-> frame.cols, index |-> index,
     cells |-> [i \in DOMAIN frame.rows |->
                   [c \in Range(frame.cols) |-> ArrowCell(frame.rows[i][c])]]]

FromArrow(doc) ==
    [cols |-> doc.columns,
     rows |-> [i \in DOMAIN doc.cells |->
                  [c \in Range(doc.columns) |-> FromArrowCell(doc.cells[i][c])]]]

\* DataFrame.to_feather(path): only a default index can be written
to_feather(frame, index) ==
    IF index # RangeIndex(Len(frame.rows))
    THEN [err |-> "ValueError", doc |-> <<>>]
    ELSE [err |-> "none", doc |-> ToArrow(frame, index)]

read_feather(doc) == FromArrow(doc)

\* DataFrame.to_parquet(path) and pd.read_parquet(path)
to_parquet(frame, index) == [err |-> "none", doc |-> ToArrow(frame, index)]
read_parquet(doc) == FromArrow(doc)

\* the keys of FORMAT_STORAGE_DICT and of get_format's loading_function_dict
Formats == {<<"json">>, <<"csv">>, <<"pickle">>, <<"feather">>, <<"parquet">>}

\* str.lower() of a format name
Lower(s) == IF s = <<"JSON">> THEN <<"json">> ELSE s

\* getattr(self.df, FORMAT_STORAGE_DICT[format])(out_path)
Store(format, frame, index) ==
    CASE format = <<"json">> -> to_json(frame, index)
      [] format = <<"csv">> -> to_csv(frame, index)
      [] format = <<"pickle">> -> to_pickle(frame, index)
      [] format = <<"feather">> -> to_feather(frame, index)
      [] format = <<"parquet">> -> to_parquet(frame, index)

\* get_format(path)(path) on the stored document
Restore(format, doc) ==
    CASE format = <<"json">> -> read_json(doc)
      [] format = <<"csv">> -> read_csv(doc)
      [] format = <<"pickle">> -> read_pickle(doc)
      [] format = <<"feather">> -> read_feather(doc)
      [] format = <<"parquet">> -> read_parquet(doc)

\* self.scorefile of a Poses without work_dir
scorefile(storage_format) == <<".", "/", "poses", "_", "scores", ".">> \o storage_format

\* Poses.save_scores: [err, scorefiles, path], path being the file it names
save_scores(frame, sf, storage_format, out_path, out_format) ==
    LET path0 == IF out_path = None THEN scorefile(storage_format) ELSE out_path
        format == IF out_format = None THEN storage_format ELSE out_format
        path == IF EndsWith(path0, <<".">> \o format) THEN path0
                ELSE path0 \o <<".">> \o format
    IN  IF Lower(format) \notin Formats
        THEN [err |-> "none", scorefiles |-> sf, path |-> path]
        ELSE LET w == Store(Lower(format), frame, RangeIndex(Len(frame.rows)))
             IN  [err |-> w.err,
                  scorefiles |-> IF w.err = "none" THEN (path :> w.doc) @@ sf ELSE sf,
                  path |-> path]

\* Poses.load_poses: [err, df]
load_poses(old, d, sf, poses_path) ==
    LET suffix == RSplitLast(poses_path, ".")
    IN  IF suffix \notin Formats THEN [err |-> "KeyError", df |-> old]
        ELSE IF poses_path \notin DOMAIN sf THEN [err |-> "FileNotFoundError", df |-> old]
        ELSE LET r == set_poses(old, d, [kind |-> "table",
                                         table |-> Restore(suffix, sf[poses_path])],
                                <<>>, TRUE)
             IN  [err |-> r.err, df |-> r.df]

ColTags == <<"p", "_", "tags">>

\* registries with scores, missing values and list-valued cells
StoreTables ==
    {[cols |-> MandatoryCols \o <<Prefixed(<<"p">>, <<"score">>), ColTags>>,
      rows |-> <<StoredRow(Pdb("d1", <<"a">>), Pdb("out", <<"a", "_", "0001">>),
                           <<"a", "_", "0001">>)
                 @@ (Prefixed(<<"p">>, <<"score">>) :> Score)
                 @@ (ColTags :> ListCell(<<"x", "y">>)),
                 StoredRow(Pdb("d1", <<"a">>), Pdb("out", <<"a", "_", "0002">>),
                           <<"a", "_", "0002">>)
                 @@ (Prefixed(<<"p">>, <<"score">>) :> NaN)
                 @@ (ColTags :> ListCell(<<>>))>>],
     [cols |-> MandatoryCols \o <<Prefixed(<<"p">>, <<"score">>)>>,
      rows |-> <<StoredRow(Pdb("d1", <<"a">>), Pdb("out", <<"a", "_", "0001">>),
                           <<"a", "_", "0001">>)
                 @@ (Prefixed(<<"p">>, <<"score">>) :> Score)>>]}

StoreInputs ==
    {[kind |-> "table", table |-> t] : t \in StoreTables}
    \cup {[kind |-> "list", list |-> l] : l \in PathLists}

\* Poses(poses=..., storage_format=...)
CreateForStore ==
    /\ last.op = "init"
    /\ \E inp \in StoreInputs, storage_format \in Formats :
         LET r == set_poses(df, Disk, inp, <<>>, FALSE)
         IN  /\ df' = r.df
             /\ files' = r.d.files
             /\ contents' = r.d.contents
             /\ dirs' = r.d.dirs
             /\ last' = [op |-> "set_poses", err |-> r.err, input |-> inp,
                         storage_format |-> storage_format]
             /\ pre' = df
             /\ UNCHANGED <<scorefiles, default_jobstarter>>

\* poses.save_scores(out_path, out_format)
SaveScores ==
    /\ last.op = "set_poses"
    /\ last.err = "none"
    /\ \E out_path \in {None, <<"t">>, <<"t", ".", "csv">>},
          out_format \in Formats \cup {None, <<"JSON">>, <<"xlsx">>} :
         LET r == save_scores(df, scorefiles, last.storage_format, out_path, out_format)
         IN  /\ scorefiles' = r.scorefiles
             /\ last' = [op |-> "save_scores", err |-> r.err, path |-> r.path]
             /\ pre' = df
             /\ UNCHANGED <<df, files, dirs, contents, default_jobstarter>>

\* Poses().load_poses(path) of the file save_scores named
LoadPoses ==
    /\ last.op = "save_scores"
    /\ last.err = "none"
    /\ LET r == load_poses(EmptyFrame(MandatoryCols), Disk, scorefiles, last.path)
       IN  /\ df' = r.df
           /\ last' = [op |-> "load_poses", err |-> r.err, path |-> last.path]
           /\ pre' = df
           /\ UNCHANGED <<files, dirs, others>>

NextStore == CreateForStore \/ SaveScores \/ LoadPoses

SpecStore == Init /\ [][NextStore]_vars

---------------------------------------------------------------------------
(* Properties                                                              *)

Descriptions(frame) == Column(frame, ColPosesDescription)

\* the number of positions of the list that hold v
Count(lst, v) == Cardinality({i \in DOMAIN lst : lst[i] = v})

SameMultiset(a, b) == \A v \in Range(a) \cup Range(b) : Count(a, v) = Count(b, v)

Distinct(lst) == \A i \in DOMAIN lst : \A j \in DOMAIN lst : i # j => lst[i] # lst[j]

Reconciled == last.op = "return_poses"

\* the join keys of the raw result table of the last reconciliation
JoinKeys ==
    IF ColDescription \in Range(last.results.cols)
    THEN [j \in DOMAIN last.results.rows |->
             select_col(last.results.rows[j][ColDescription], last.index_layers, "_")]
    ELSE <<>>

\* the column names the last reconciliation brings: every raw result column
\* and the join key, prefixed
IncomingCols ==
    {Prefixed(last.prefix, c) : c \in Range(last.results.cols) \cup {ColSelectCol}}

\* C1: in every reachable registry the poses_description values are pairwise
\* distinct.
C1_KeyUniqueness == Distinct(Descriptions(df))

\* C2: in every reachable registry each row's poses_description is the base
\* filename of its poses without the extension, by the one rule that
\* check_data_formatting applies to rows of a raw result table.
C2_DescriptionMatchesLocation ==
    \A i \in DOMAIN df.rows :
        df.rows[i][ColPosesDescription] = SplitextRoot(Basename(df.rows[i][ColPoses]))

\* C3: a reconciliation into a non-empty registry in which some registry row's
\* poses_description matches no join key raises and leaves the table as it was.
C3_NoSilentDrop ==
    (/\ Reconciled
     /\ Len(pre.rows) > 0
     /\ \E i \in DOMAIN pre.rows :
            pre.rows[i][ColPosesDescription] \notin Range(JoinKeys))
    => (last.err # "none" /\ df = pre)

\* C4: a reconciliation into a non-empty registry in which some result row's
\* join key matches no poses_description raises.
C4_UnmatchedResultRaises ==
    (/\ Reconciled
     /\ Len(pre.rows) > 0
     /\ \E j \in DOMAIN JoinKeys : JoinKeys[j] \notin Range(Descriptions(pre)))
    => last.err # "none"

\* the number of rows the inner join of the last reconciliation produced
JoinSize ==
    Cardinality({ij \in (DOMAIN pre.rows) \X (DOMAIN JoinKeys) :
                    pre.rows[ij[1]][ColPosesDescription] = JoinKeys[ij[2]]})

\* C5: a join of zero rows raises the no-overlap error, and a join of at least
\* one row but fewer rows than the registry had raises the rows-not-found
\* (pipeline-drop) error.
C5_JoinFailureClasses ==
    (/\ Reconciled
     /\ Len(pre.rows) > 0
     /\ check_data_formatting(last.results) = "none")
    => /\ JoinSize = 0 => last.err = "ValueError: no overlap"
       /\ (0 < JoinSize /\ JoinSize < Len(pre.rows))
              => last.err = "ValueError: rows not found"

\* C6: a reconciliation that raises (in RunnerOutput's constructor or in
\* return_poses) leaves poses.df the table it was: same columns, rows, order.
C6_FailedReconcileKeepsRegistry ==
    (Reconciled /\ last.err # "none") => df = pre

C6_Witness ==
    /\ Reconciled
    /\ Len(pre.rows) = 2
    /\ last.err = "ValueError: rows not found"
    /\ df = pre

\* description is parent plus one trailing "_"-separated index token
IsChildOf(description, parent) ==
    /\ Len(description) = Len(parent) + 2
    /\ SubSeq(description, 1, Len(parent)) = parent
    /\ description[Len(parent) + 1] = "_"
    /\ description[Len(description)] \notin {"_", ".", "/"}

\* the last call reconciled, with index_layers = 1, a well-formed raw result
\* table of m*n rows, n children of each of the m distinct registry descriptions
FanIn(n) ==
    /\ Reconciled
    /\ last.index_layers = 1
    /\ check_data_formatting(last.results) = "none"
    /\ Distinct(Descriptions(pre))
    /\ Len(last.results.rows) = Len(pre.rows) * n
    /\ \A i \in DOMAIN pre.rows :
           Cardinality({j \in DOMAIN last.results.rows :
                           IsChildOf(last.results.rows[j][ColDescription],
                                     pre.rows[i][ColPosesDescription])}) = n

FanInDone(n) ==
    /\ last.err = "none"
    /\ Len(df.rows) = Len(pre.rows) * n
    /\ SameMultiset(Descriptions(df), Column(last.results, ColDescription))

\* C7 as stated: every fan-in reconciliation succeeds with m*n rows whose
\* descriptions are the raw result's.
C7_FanInAsStated == \A n \in 0..MaxResults : FanIn(n) => FanInDone(n)

\* C7 amended: a fan-in reconciliation with m >= 1 and n >= 1 that brings no
\* column name the registry already has succeeds with m*n rows whose
\* descriptions are the raw result's.
C7_FanIn ==
    \A n \in 1..MaxResults :
        (/\ FanIn(n)
         /\ Len(pre.rows) >= 1
         /\ IncomingCols \cap Range(pre.cols) = {})
        => FanInDone(n)

C7_Witness ==
    /\ FanIn(2)
    /\ Len(pre.rows) = 2
    /\ IncomingCols \cap Range(pre.cols) = {}
    /\ FanInDone(2)
    /\ Len(df.rows) = 4

\* C8: duplicate_poses(output_dir, n) completes without error and leaves m*n
\* rows whose poses lie in output_dir and whose descriptions, with the last
\* "_" token stripped, are the m original descriptions n times each.
C8_Duplication ==
    (last.op = "duplicate_poses" /\ Len(pre.rows) >= 1 /\ last.n >= 1)
    => /\ last.err = "none"
       /\ Len(df.rows) = Len(pre.rows) * last.n
       /\ \A i \in DOMAIN df.rows :
              SubSeq(df.rows[i][ColPoses], 1, Len(last.output_dir) + 1)
                  = last.output_dir \o <<"/">>
       /\ \A i \in DOMAIN pre.rows :
              Count([j \in DOMAIN df.rows |->
                        RSplitFirst(df.rows[j][ColPosesDescription], "_")],
                    pre.rows[i][ColPosesDescription]) = last.n

C10_UsedPrefixRejected ==
    (/\ last.op = "check_for_prefix"
     /\ Prefixed(last.prefix, ColLocation) \in Range(df.cols))
    => last.err = "KeyError"

\* C18: the outcomes of creating a registry: a glob without match, a missing
\* single file and a list with a missing file raise FileNotFoundError; no
\* input gives the empty table with the three mandatory columns; a table
\* without a mandatory column raises the schema error, any other table becomes
\* the registry as it is.
C18_CreationOutcomes ==
    last.op = "set_poses" =>
        LET inp == last.input
        IN  /\ (inp.kind = "str" /\ inp.glob # <<>>
                    /\ GlobMatches(files, inp.path, inp.glob) = {})
                   => last.err = "FileNotFoundError"
            /\ (inp.kind = "str" /\ inp.glob = <<>> /\ inp.path \notin files)
                   => last.err = "FileNotFoundError"
            /\ (inp.kind = "list" /\ \E i \in DOMAIN inp.list : inp.list[i] \notin files)
                   => last.err = "FileNotFoundError"
            /\ inp.kind = "none"
                   => (last.err = "none" /\ df = [cols |-> MandatoryCols, rows |-> <<>>])
            /\ (inp.kind = "table" /\ ~(Range(MandatoryCols) \subseteq Range(inp.table.cols)))
                   => last.err = "KeyError"
            /\ (inp.kind = "table" /\ Range(MandatoryCols) \subseteq Range(inp.table.cols))
                   => (last.err = "none" /\ df = inp.table)

C18_Witness ==
    /\ last.op = "set_poses"
    /\ last.input.kind = "list"
    /\ Len(last.input.list) = 2
    /\ last.input.list[1] \in files
    /\ last.input.list[2] \notin files
    /\ last.err = "FileNotFoundError"

\* the last call was change_poses_dir(dir, copy=False)
Relocated == last.op = "change_poses_dir" /\ ~last.call.copy

\* where the row's file would be in the new directory
NewPlace(row) == PathJoin(last.call.poses_dir, RSplitLast(row[ColPoses], "/"))

\* C20: change_poses_dir(dir, copy=False) raises and leaves the table as it
\* was if dir is no directory or a row's base filename is not in dir;
\* otherwise it sets every row's poses to dir joined with the row's base
\* filename and changes no other column and no row count.
C20_RelocateWithoutCopy ==
    Relocated =>
        IF \/ last.call.poses_dir \notin dirs
           \/ \E i \in DOMAIN pre.rows : NewPlace(pre.rows[i]) \notin files
        THEN last.err # "none" /\ df = pre
        ELSE /\ last.err = "none"
             /\ df.cols = pre.cols
             /\ Len(df.rows) = Len(pre.rows)
             /\ \A i \in DOMAIN pre.rows :
                    /\ df.rows[i][ColPoses] = NewPlace(pre.rows[i])
                    /\ \A c \in Range(pre.cols) \ {ColPoses} :
                           df.rows[i][c] = pre.rows[i][c]

C20_Witness ==
    /\ Relocated
    /\ last.err = "none"
    /\ Len(pre.rows) >= 1
    /\ df # pre
    /\ \A i \in DOMAIN df.rows : df.rows[i][ColPoses] \in files

\* C15: prep_pose_options with a column name returns that column's values in
\* row order if the registry has the column, and raises if it has not.
C15_PoseOptionsFromColumn ==
    (last.op = "prep_pose_options" /\ last.arg.kind = "column")
    => IF last.arg.name \in Range(df.cols)
       THEN last.err = "none" /\ last.value = Column(df, last.arg.name)
       ELSE last.err # "none"

\* C16: prep_pose_options with a list raises if the registry is non-empty and
\* the list's length is not the number of rows, and returns the list when the
\* lengths agree; without argument it returns one empty entry per row; a
\* result for a non-empty registry has one entry per row.
C16_PoseOptionsListOrAbsent ==
    (last.op = "prep_pose_options" /\ last.arg.kind # "column")
    => /\ (last.arg.kind = "list" /\ Len(df.rows) > 0
               /\ Len(last.arg.list) # Len(df.rows))
              => last.err = "ValueError"
       /\ (last.arg.kind = "list" /\ Len(last.arg.list) = Len(df.rows))
              => (last.err = "none" /\ last.value = last.arg.list)
       /\ last.arg.kind = "none"
              => /\ last.err = "none"
                 /\ Len(last.value) = Len(df.rows)
                 /\ \A i \in DOMAIN last.value : last.value[i] = None
       /\ (last.err = "none" /\ Len(df.rows) > 0)
              => Len(last.value) = Len(df.rows)

C16_Witness ==
    /\ last.op = "prep_pose_options"
    /\ last.arg.kind = "list"
    /\ Len(df.rows) = 2
    /\ Len(last.arg.list) = 2
    /\ last.err = "none"
    /\ last.value = last.arg.list

\* the value of key k in a dict, as a function of the keys
AsMap(d) == [k \in Keys(d) |-> DictGet(d, k)]

\* "--x 1" and "--x 2"
OptionX1 == Sep \o <<"x", " ", "1">>
OptionX2 == Sep \o <<"x", " ", "2">>

\* C12: parse_generic_options(generic, override) returns the generic string's
\* map updated by the override string's map, the override's value for a key
\* of both, and the union of the two strings' flags; ("--x 1", "--x 2")
\* gives {x: "2"}.
C12_OptionMerge ==
    last.op = "parse_generic_options" =>
        LET g == expand_options_flags(last.options, Sep)
            o == expand_options_flags(last.pose_options, Sep)
        IN  /\ Keys(last.opts) = Keys(g.opts) \cup Keys(o.opts)
            /\ \A k \in Keys(last.opts) :
                   DictGet(last.opts, k) = IF k \in Keys(o.opts)
                                           THEN DictGet(o.opts, k)
                                           ELSE DictGet(g.opts, k)
            /\ last.flags = g.flags \cup o.flags
            /\ (last.options = OptionX1 /\ last.pose_options = OptionX2)
                   => AsMap(last.opts) = (<<"x">> :> <<"2">>)

C12_Witness ==
    /\ last.op = "parse_generic_options"
    /\ last.options = OptionX1 \o <<" ">> \o Sep \o <<"y">>
    /\ last.pose_options = OptionX2 \o <<" ">> \o Sep \o <<"y">>
    /\ AsMap(last.opts) = (<<"x">> :> <<"2">>)
    /\ last.flags = {<<"y">>}

\* the separator-delimited, whitespace-trimmed fragments of an option string
Pieces(s) ==
    IF s = None THEN <<>>
    ELSE LET raw == SelectSeq(SplitOn(s, Sep), LAMBDA x : x # <<>>)
         IN  [i \in DOMAIN raw |-> Strip(raw[i], " ")]

IsPair(f) == " " \in Range(f) \/ "=" \in Range(f)

\* what follows the first ch of f
After(f, ch) == SubSeq(f, Min(Positions(f, ch)) + 1, Len(f))

PieceKey(f) == IF " " \in Range(f) THEN SplitFirst(f, " ") ELSE SplitFirst(f, "=")

\* the value as the text that follows the key
PieceRemainder(f) ==
    IF " " \in Range(f) THEN Strip(After(f, " "), " ") ELSE After(f, "=")

\* s with every run of spaces made one space
Collapsed(s) ==
    LET keep == {i \in DOMAIN s : ~(s[i] = " " /\ i > 1 /\ s[i - 1] = " ")}
        RECURSIVE Pick(_)
        Pick(i) == IF i > Len(s) THEN <<>>
                   ELSE (IF i \in keep THEN <<s[i]>> ELSE <<>>) \o Pick(i + 1)
    IN  Pick(1)

\* the value as the words that follow the key, one space between them
PieceWords(f) ==
    IF " " \in Range(f) THEN Collapsed(Strip(After(f, " "), " ")) ELSE After(f, "=")

\* every fragment is in the map (a pair, under its key, the last fragment of
\* a key giving the value) or in the flags (any other), and nothing else is
Tokenized(Value(_)) ==
    LET F == Pieces(last.options_str)
        pairs == {i \in DOMAIN F : IsPair(F[i])}
    IN  /\ Keys(last.opts) = {PieceKey(F[i]) : i \in pairs}
        /\ last.flags = {F[i] : i \in (DOMAIN F) \ pairs}
        /\ \A k \in Keys(last.opts) :
               DictGet(last.opts, k)
                   = Value(F[Max({i \in pairs : PieceKey(F[i]) = k})])

\* C13 as stated: a fragment with an internal space is the pair of its first
\* word and the remainder, one with "=" the pair of the text before the first
\* "=" and all text after it, any other a flag.
C13_TokenizationAsStated ==
    last.op = "expand_options_flags" => Tokenized(PieceRemainder)

\* C13 amended: as stated, but the value of a fragment with an internal space
\* is its remaining words joined by single spaces.
C13_Tokenization ==
    last.op = "expand_options_flags" => Tokenized(PieceWords)

C13_Witness ==
    /\ last.op = "expand_options_flags"
    /\ last.options_str = Sep \o <<"y", " ", "1", " ", " ", "2">> \o <<" ">>
                          \o Sep \o <<"x", "=", "1", "=", "2">>
    /\ AsMap(last.opts) = (<<"y">> :> <<"1", " ", "2">>)
                          @@ (<<"x">> :> <<"1", "=", "2">>)
    /\ last.flags = {}

\* the string is absent, empty, or made of whitespace and separators only
Blank(s) ==
    \/ s = None
    \/ \A i \in DOMAIN SplitOn(s, Sep) : Range(SplitOn(s, Sep)[i]) \subseteq {" "}

\* C14: an absent, empty or blank option string gives an empty map and an
\* empty flag set, parse_generic_options does not raise on such strings, and
\* no empty flag and no empty key is ever produced.
C14_BlankOptions ==
    /\ (last.op = "expand_options_flags" /\ Blank(last.options_str))
           => (last.opts = <<>> /\ last.flags = {})
    /\ (last.op = "parse_generic_options" /\ Blank(last.options)
            /\ Blank(last.pose_options))
           => last.err = "none"
    /\ last.op \in {"expand_options_flags", "parse_generic_options"}
           => (<<>> \notin last.flags /\ <<>> \notin Keys(last.opts))

\* C19: when a Poses is created from a list of inputs, every file of the
\* list with several records is replaced by one entity per record, no file
\* with several records remains an entity, and every entity of a record has
\* a file that exists and holds exactly that record.
MultiRecord(path) ==
    /\ path \in DOMAIN FastaContents
    /\ Len(FastaContents[path]) > 1

Exploded(l) ==
    /\ \A i \in DOMAIN l : MultiRecord(l[i]) =>
          /\ l[i] \notin Range(poses_list(df))
          /\ \A k \in DOMAIN FastaContents[l[i]] :
                \E j \in DOMAIN df.rows :
                   /\ df.rows[j][ColPosesDescription] = FastaContents[l[i]][k][1]
                   /\ df.rows[j][ColPoses] \in files
                   /\ df.rows[j][ColPoses] \in DOMAIN contents
                   /\ contents[df.rows[j][ColPoses]] = <<FastaContents[l[i]][k]>>

C19_MultiRecordExplosion ==
    (/\ last.op = "set_poses"
     /\ last.input.kind = "list"
     /\ \E i \in DOMAIN last.input.list : MultiRecord(last.input.list[i]))
    => (last.err = "none" /\ Exploded(last.input.list))

\* the same once the object has its work_dir
C19_ExplosionOnObject ==
    (/\ last.op = "set_poses_on_object"
     /\ \E i \in DOMAIN last.input.list : MultiRecord(last.input.list[i]))
    => (last.err = "none" /\ Exploded(last.input.list))

\* C17: the backend a run uses is the one passed to run if set, otherwise
\* the runner's own default if set, otherwise default_jobstarter of the
\* Poses; if none of the three is set the run fails with an error before
\* any command is started.
PreferredBackend ==
    Or(last.args.jobstarter, Or(last.self_js, default_jobstarter))

Started == "start" \in Range(last.steps)

C17_BackendPrecedence ==
    last.op = "run" =>
        /\ Started => last.backend = PreferredBackend
        /\ PreferredBackend = NoJobstarter => (last.err # "none" /\ ~Started)

\* the same for RosettaScripts alone, whose run goes through
\* generic_run_setup: it holds there
C17_BackendPrecedenceOfSetup ==
    (last.op = "run" /\ last.runner = "RosettaScripts") =>
        /\ Started => last.backend = PreferredBackend
        /\ PreferredBackend = NoJobstarter => (last.err = "ValueError" \/ last.err = "KeyError")
        /\ PreferredBackend = NoJobstarter => ~Started

\* C11: of two calls of a runner's run with the same arguments, overwrite
\* false and the persisted score file in place, the second does not start
\* the job backend, and the registry after it is the registry after the
\* first, in the same process as well as after a restart.
SecondResumedCall ==
    /\ last.op = "run"
    /\ last.repeat
    /\ ~last.args.overwrite
    /\ last.had_file

C11_IdempotentResume ==
    SecondResumedCall => (~Started /\ df = last.first)

\* the second call after a restart, the first call having written the score
\* file and added its columns to the registry
C11_Witness ==
    /\ SecondResumedCall
    /\ last.err = "none"
    /\ df # pre
    /\ Prefixed(last.args.prefix, ColLocation) \in Range(df.cols)
    /\ last.args.prefix = <<"p", "_", "q">>
    /\ df = last.first

\* the second call in the same process
C11_WitnessSameProcess ==
    /\ SecondResumedCall
    /\ Prefixed(last.args.prefix, ColLocation) \in Range(pre.cols)
    /\ df = pre

\* C22: a RunnerOutput built from a raw result table that lacks the column
\* description or location, or in which a row's description is not the base
\* filename of its location without the extension, raises the error of the
\* format check and no other, and the registry is not touched.
ExtensionLess(path) == RSplitFirst(RSplitLast(path, "/"), ".")

SchemaViolation(results) ==
    \/ ColDescription \notin Range(results.cols)
    \/ ColLocation \notin Range(results.cols)
    \/ \E i \in DOMAIN results.rows :
          results.rows[i][ColDescription] # ExtensionLess(results.rows[i][ColLocation])

C22_SchemaBeforeMerge ==
    (Reconciled /\ SchemaViolation(last.results)) =>
        /\ last.err \in {"ValueError: mandatory columns", "ValueError: description mismatch"}
        /\ df = pre

\* a table whose description names a pose of the registry but not its own
\* location
C22_Witness ==
    /\ Reconciled
    /\ last.results = MismatchTable
    /\ last.index_layers = 0
    /\ <<"a">> \in Range(Descriptions(pre))
    /\ last.err = "ValueError: description mismatch"

\* C23: after return_poses succeeds on a non-empty registry with no name
\* collision, the registry's columns are the previous columns and
\* <prefix>_<c> for every raw result column c, the column <prefix>_select_col
\* is absent, and every row has poses = <prefix>_location and
\* poses_description = <prefix>_description.
ReconciledBy(ops) ==
    /\ last.op \in ops
    /\ last.err = "none"
    /\ Len(pre.rows) > 0
    /\ IncomingCols \cap Range(pre.cols) = {}

Postcondition ==
    /\ Range(df.cols)
         = Range(pre.cols) \cup {Prefixed(last.prefix, c) : c \in Range(last.results.cols)}
    /\ Len(df.cols) = Cardinality(Range(df.cols))
    /\ Prefixed(last.prefix, ColSelectCol) \notin Range(df.cols)
    /\ \A i \in DOMAIN df.rows :
          /\ df.rows[i][ColPoses] = df.rows[i][Prefixed(last.prefix, ColLocation)]
          /\ df.rows[i][ColPosesDescription]
               = df.rows[i][Prefixed(last.prefix, ColDescription)]

C23_ReconcilePostcondition ==
    ReconciledBy({"return_poses", "return_poses_legacy"}) => Postcondition

\* the same for the RunnerOutput of src/protslurm/runners.py alone: it holds
C23_PostconditionOfRunners ==
    ReconciledBy({"return_poses"}) => Postcondition

\* C27: reconciling a raw result table of r >= 1 rows into an empty registry
\* succeeds and yields a registry of exactly r rows whose poses and
\* poses_description are the raw result's location and description.
BootstrapBy(ops) ==
    /\ last.op \in ops
    /\ Len(pre.rows) = 0
    /\ Len(last.results.rows) >= 1
    /\ ~SchemaViolation(last.results)

Bootstrapped ==
    /\ last.err = "none"
    /\ Len(df.rows) = Len(last.results.rows)
    /\ \A i \in DOMAIN df.rows :
          /\ df.rows[i][ColPoses] = last.results.rows[i][ColLocation]
          /\ df.rows[i][ColPosesDescription] = last.results.rows[i][ColDescription]

C27_Bootstrap ==
    BootstrapBy({"return_poses", "return_poses_legacy"}) => Bootstrapped

\* the same for the RunnerOutput of src/protslurm/runners.py alone: it holds
C27_BootstrapOfRunners ==
    BootstrapBy({"return_poses"}) => Bootstrapped

C27_WitnessOfRunners ==
    /\ BootstrapBy({"return_poses"})
    /\ Bootstrapped

\* C26: after any sequence of relocate, duplicate and reconcile operations
\* (the empty-registry bootstrap included) every registry row has an
\* input_poses value that is one of the input paths given at creation, and a
\* row derived from an entity carries that entity's input_poses.
GivenPaths ==
    Range(CandidatePaths) \cup InitialFiles
    \cup UNION {{t.rows[i][ColInputPoses] : i \in DOMAIN t.rows} : t \in StoredTables}

InputPosesOf(frame) == {frame.rows[i][ColInputPoses] : i \in DOMAIN frame.rows}

DerivingOps == {"change_poses_dir", "duplicate_poses", "return_poses"}

C26_InputProvenance ==
    /\ \A i \in DOMAIN df.rows : df.rows[i][ColInputPoses] \in GivenPaths
    /\ (last.op \in DerivingOps /\ last.err = "none")
          => InputPosesOf(df) \subseteq InputPosesOf(pre)

\* the second half without the bootstrap: it holds
C26_ProvenanceOfEntities ==
    (last.op \in DerivingOps /\ last.err = "none" /\ Len(pre.rows) > 0)
        => InputPosesOf(df) \subseteq InputPosesOf(pre)

\* C28: for index_layers = k > 0 the join key of a result row is its
\* description without its last k separator-delimited tokens (the key of
\* d + sep + i with k = 1 is d, whatever d), for k = 0 it is the description,
\* and a description of k or fewer tokens yields a key that matches no
\* registry entity.
Tokens(s) == Split(s, "_")

KeyDerived == last.op = "select_col" /\ last.key # None

\* the key followed by the last k tokens is the description
KeyOfLonger ==
    LET t == Tokens(last.description)
        k == last.index_layers
    IN  (k > 0 /\ Len(t) > k)
            => /\ last.description
                    = last.key \o <<"_">> \o Join(SubSeq(t, Len(t) - k + 1, Len(t)), "_")
               /\ Tokens(last.key) = SubSeq(t, 1, Len(t) - k)

KeyOfUnindexed == last.index_layers = 0 => last.key = last.description

TooShort == last.index_layers > 0 /\ Len(Tokens(last.description)) <= last.index_layers

EntityKeys == Range(Descriptions(pre))

C28_WitnessOfShort ==
    /\ KeyDerived
    /\ TooShort
    /\ last.key = <<>>
    /\ EntityKeys = {<<"a">>}
    /\ last.err # "none"

\* C30: get_pose(d) raises KeyError exactly when d is not the
\* poses_description of any registry row, and otherwise loads the structure at
\* the poses location of the row whose poses_description equals d.
LookedUp == last.op = "get_pose" /\ last.pose_description.type = "str"

PosesOf(frame, d) ==
    {frame.rows[i][ColPoses] : i \in {j \in DOMAIN frame.rows :
                                         frame.rows[j][ColPosesDescription] = d}}

C30_LookupByKey ==
    LookedUp =>
        LET d == last.pose_description.value
        IN  /\ last.err = "KeyError" <=> PosesOf(df, d) = {}
            /\ last.err # "KeyError" => last.loaded \in PosesOf(df, d)

\* what the code does with a str: KeyError, whatever the registry
C30_AlwaysKeyError == LookedUp => last.err = "KeyError"

C30_WitnessOfKeyError ==
    /\ LookedUp
    /\ PosesOf(df, last.pose_description.value) # {}
    /\ last.err = "KeyError"

\* C21: for every supported storage format (json, csv, pickle, feather,
\* parquet), save_scores followed by load_poses on the written file yields a
\* registry table with the same column set and the same cell contents as the
\* original, list-valued cells included.
Restored(formats) ==
    /\ last.op = "load_poses"
    /\ RSplitLast(last.path, ".") \in formats

\* a cell without the distinctions between None and NaN and between a list
\* and an array
Plain(v) ==
    IF v \in {None, NaN} THEN NaN
    ELSE IF Len(v) > 0 /\ v[1] = "[ndarray]" THEN ListCell(Tail(v))
    ELSE v

SameTable(a, b) ==
    /\ Range(a.cols) = Range(b.cols)
    /\ Len(a.rows) = Len(b.rows)
    /\ \A i \in DOMAIN a.rows : \A c \in Range(a.cols) \cap Range(b.cols) :
          Plain(a.rows[i][c]) = Plain(b.rows[i][c])

C21_FormatRoundTrip ==
    Restored(Formats) => (last.err = "none" /\ SameTable(df, pre))

\* the same for the formats other than csv: it holds
C21_RoundTripButCsv ==
    Restored(Formats \ {<<"csv">>}) => (last.err = "none" /\ SameTable(df, pre))

C21_WitnessButCsv ==
    /\ Restored({<<"feather">>})
    /\ last.err = "none"
    /\ ColTags \in Range(df.cols)
    /\ Len(df.rows) = 2

\* what csv does: one more column, the row labels
C21_CsvAddsColumn ==
    Restored({<<"csv">>}) => Range(df.cols) = Range(pre.cols) \cup {Unnamed(1)}

\* C24: once the job backend's start call has returned, a run terminates, and
\* when expected output artifacts are missing, wholly or partly, the
\* artifact-collection step raises NotFound.
StartReturned == last.op = "run" /\ Started

\* the jobs left outputs for fewer poses than the registry has, or no
\* structure files
ArtifactsMissing == last.job.k < Len(pre.rows) \/ ~last.job.pdbs

C24_TerminationAfterStart ==
    StartReturned =>
        /\ last.err # "never returns"
        /\ ArtifactsMissing => last.err = "FileNotFoundError"

\* what the code does raise NotFound for: no output at all
C24_NotFoundWhenNoOutput ==
    (StartReturned /\ last.job.k = 0) => last.err = "FileNotFoundError"

C24_WitnessOfHang ==
    /\ StartReturned
    /\ last.runner = "RosettaScripts"
    /\ ~last.job.pdbs
    /\ last.err = "never returns"

C24_WitnessOfPartial ==
    /\ StartReturned
    /\ last.job.pdbs
    /\ 0 < last.job.k
    /\ last.job.k < Len(pre.rows)
    /\ last.err = "none"
    /\ Len(df.rows) < Len(last.cmds)

\* C25: a non-resumed run builds exactly one invocation command per registry
\* entity, in registry row order, and passes them to the job backend in
\* exactly one start call; artifact collection and reconciliation happen only
\* after that call has returned.
StepsAt(step) == {i \in DOMAIN last.steps : last.steps[i] = step}

OneStartCall ==
    /\ Cardinality(StepsAt("start")) = 1
    /\ \A i \in StepsAt("collect_scores") \cup StepsAt("to_json")
                \cup StepsAt("return_poses") :
          \A j \in StepsAt("start") : j < i

\* the commands the run asks for per entity
CmdsPerEntity ==
    IF last.runner = "RosettaScripts" THEN last.args.nstruct ELSE 1

CmdsInRowOrder(n) ==
    /\ Len(last.cmds) = Len(pre.rows) * n
    /\ \A x \in DOMAIN last.cmds :
          /\ last.cmds[x].pose = pre.rows[((x - 1) \div n) + 1][ColPoses]
          /\ last.runner = "RosettaScripts" => last.cmds[x].i = ((x - 1) % n) + 1

C25_OneCommandPerEntity ==
    StartReturned => (CmdsInRowOrder(1) /\ OneStartCall)

\* C25 amended: a non-resumed run that reaches the job backend has built, in
\* registry row order, nstruct commands per entity in RosettaScripts (numbered
\* 1..nstruct) and one command per entity in RFdiffusion, and passes them to
\* the backend in exactly one start call; collection and reconciliation
\* happen only after that call.
C25_Commands ==
    StartReturned => (CmdsInRowOrder(CmdsPerEntity) /\ OneStartCall)

C25_Witness ==
    /\ StartReturned
    /\ last.runner = "RosettaScripts"
    /\ last.args.nstruct = 2
    /\ Len(pre.rows) = 2
    /\ Len(last.cmds) = 4
    /\ last.steps = <<"check_for_prefix", "prep_pose_options", "start",
                      "collect_scores", "to_json", "return_poses">>
    /\ last.err = "none"

\* C29: in every runner's run the stage-prefix check comes before the resume
\* check, before any deletion of prior result files and before the backend is
\* started, so a run with an already-taken prefix never invokes the backend
\* and never deletes or loads persisted results.
PrefixTaken == Prefixed(last.args.prefix, ColLocation) \in Range(pre.cols)

ScorefileOfRun ==
    IF last.runner = "RosettaScripts"
    THEN rosetta_scorefilepath(last.args.prefix)
    ELSE rfdiffusion_scorefilepath(last.args.output_dir)

DeletedPersisted == last.had_file /\ ScorefileOfRun \notin DOMAIN scorefiles

LoadedPersisted == "read_json" \in Range(last.steps)

C29_PrefixCheckFirst ==
    last.op = "run" =>
        /\ last.steps # <<>>
        /\ last.steps[1] = "check_for_prefix"
        /\ PrefixTaken => /\ last.err = "KeyError"
                          /\ ~Started
                          /\ ~DeletedPersisted
                          /\ ~LoadedPersisted

\* what holds: RosettaScripts makes the check first, and a run whose check
\* fails does nothing else
C29_RosettaChecksFirst ==
    (last.op = "run" /\ last.runner = "RosettaScripts") =>
        /\ last.steps # <<>>
        /\ last.steps[1] = "check_for_prefix"
        /\ check_for_prefix(last.args.prefix, pre) # "none"
              => (last.steps = <<"check_for_prefix">> /\ last.err = "KeyError" /\ df = pre)

\* RFdiffusion starts the backend with a taken prefix
C29_WitnessOfRFdiffusion ==
    /\ last.op = "run"
    /\ last.runner = "RFdiffusion"
    /\ PrefixTaken
    /\ Started
    /\ DeletedPersisted

\* RosettaScripts loads the persisted results with a taken prefix
C29_WitnessOfRosetta ==
    /\ last.op = "run"
    /\ last.runner = "RosettaScripts"
    /\ PrefixTaken
    /\ LoadedPersisted

====
